---- MODULE Spec2Model ----
(***************************************************************************)
(* Verification model of the template/response matching machinery of       *)
(* fiverr-chat-buddy:                                                      *)
(*   - calculate_template_match_score   (SQL, unnamed/part_001)            *)
(*   - find_similar_refined_responses   (SQL, migration 20250915090008)    *)
(*   - the gemini-chat edge function    (TypeScript, unnamed/part_002)     *)
(*                                                                         *)
(* Text values that the code inspects character by character (messages,    *)
(* keywords) are sequences of one-character strings.  Text values that the *)
(* code only compares for equality (category, client_type, message_type)   *)
(* are TLA+ strings.  SQL NULL is NULL for such text, and a record with    *)
(* isnull = TRUE for numbers and arrays.  Exact NUMERIC values are kept as *)
(* reduced fractions num/den; a DECIMAL(5,4) is an integer count of        *)
(* ten-thousandths.                                                        *)
(***************************************************************************)
EXTENDS Integers, Sequences, FiniteSets, TLC

VARIABLES message_templates, refined_responses, rpc, req,
          template_upload_sessions, upload, chat

vars == <<message_templates, refined_responses, rpc, req,
          template_upload_sessions, upload, chat>>

(***************************************************************************)
(* SQL values                                                              *)
(***************************************************************************)
NULL == "NULL"
ABSENT == "ABSENT"

NullNum == [isnull |-> TRUE, val |-> 0]
Num(n) == [isnull |-> FALSE, val |-> n]
NullArr == [isnull |-> TRUE, val |-> <<>>]
Arr(s) == [isnull |-> FALSE, val |-> s]

\* a = b evaluated as a condition: only TRUE counts, NULL = x is not TRUE
SqlEq(a, b) == a # NULL /\ b # NULL /\ a = b

(***************************************************************************)
(* Exact NUMERIC arithmetic on reduced fractions                           *)
(***************************************************************************)
Abs(n) == IF n < 0 THEN -n ELSE n

RECURSIVE Gcd(_, _)
Gcd(a, b) == IF b = 0 THEN a ELSE Gcd(b, a % b)

R(n, d) ==
  LET g == Gcd(Abs(n), d)
  IN  [num |-> n \div g, den |-> d \div g]

RAdd(x, y) == R(x.num * y.den + y.num * x.den, x.den * y.den)
RMul(x, y) == R(x.num * y.num, x.den * y.den)
RLeq(x, y) == x.num * y.den <= y.num * x.den
RLess(x, y) == x.num * y.den < y.num * x.den

\* NUMERIC rounding to a given number of units: half away from zero
RoundDiv(n, d) ==
  IF n >= 0 THEN (2 * n + d) \div (2 * d)
  ELSE -((2 * (-n) + d) \div (2 * d))

\* cast of an exact NUMERIC to DECIMAL(5,4), in ten-thousandths
ToDecimal54(x) == RoundDiv(x.num * 10000, x.den)

(***************************************************************************)
(* Text                                                                    *)
(***************************************************************************)
UpperLetters == <<"A", "B", "C", "D", "E", "F", "G", "H", "I", "J", "K", "L", "M",
                  "N", "O", "P", "Q", "R", "S", "T", "U", "V", "W", "X", "Y", "Z">>
LowerLetters == <<"a", "b", "c", "d", "e", "f", "g", "h", "i", "j", "k", "l", "m",
                  "n", "o", "p", "q", "r", "s", "t", "u", "v", "w", "x", "y", "z">>

\* the characters that occur in the texts of this model
Digits == { "0", "1", "2", "3", "4", "5", "6", "7", "8", "9" }
Chars == { UpperLetters[i] : i \in 1..26 } \cup { LowerLetters[i] : i \in 1..26 }
           \cup Digits
           \cup { " ", "\n", "\r", "\t", "_", "%", "\\", ".", ",", "!", "?" }

LowerChar ==
  [c \in Chars |->
     IF \E i \in 1..26 : UpperLetters[i] = c
     THEN LowerLetters[CHOOSE i \in 1..26 : UpperLetters[i] = c]
     ELSE c]

\* SQL LOWER(text)
RECURSIVE LOWER(_)
LOWER(s) == IF s = <<>> THEN <<>> ELSE <<LowerChar[Head(s)]>> \o LOWER(Tail(s))

Drop(s, k) == SubSeq(s, k + 1, Len(s))

\* a string literal as the sequence of its characters
RECURSIVE Text(_)
Text(str) ==
  IF Len(str) = 0 THEN <<>>
  ELSE <<SubSeq(str, 1, 1)>> \o Text(SubSeq(str, 2, Len(str)))

UpperChar ==
  [c \in Chars |->
     IF \E i \in 1..26 : LowerLetters[i] = c
     THEN UpperLetters[CHOOSE i \in 1..26 : LowerLetters[i] = c]
     ELSE c]

IsLower(c) == \E i \in 1..26 : LowerLetters[i] = c
IsUpper(c) == \E i \in 1..26 : UpperLetters[i] = c
\* \s restricted to the characters of the model
IsSpace(c) == c \in { " ", "\t", "\n", "\r" }
\* \w
IsWordChar(c) == IsLower(c) \/ IsUpper(c) \/ c \in Digits \/ c = "_"

\* SQL  s LIKE p : % is any run of characters, _ any one character,
\* a backslash takes the next pattern character literally
RECURSIVE LIKE(_, _)
LIKE(s, p) ==
  IF p = <<>> THEN s = <<>>
  ELSE IF Head(p) = "%" THEN \E k \in 0..Len(s) : LIKE(Drop(s, k), Tail(p))
  ELSE IF s = <<>> THEN FALSE
  ELSE IF Head(p) = "_" THEN LIKE(Tail(s), Tail(p))
  ELSE IF Head(p) = "\\" /\ Len(p) >= 2
       THEN Head(s) = p[2] /\ LIKE(Tail(s), Drop(p, 2))
  ELSE Head(s) = Head(p) /\ LIKE(Tail(s), Tail(p))

\* plain substring test, the relation the LIKE test is compared with
IsSubstring(k, s) ==
  \E i \in 0..(Len(s) - Len(k)) : SubSeq(s, i + 1, i + Len(k)) = k

(***************************************************************************)
(* message_templates rows                                                  *)
(***************************************************************************)
MaxKeywords == 2

KeywordPool == { <<"b">>, <<"A", "b">>, <<"a", "_">> }
MessagePool == { <<>>, <<"A", "B">>, <<"a", "c">>, <<"a", "_", "b">> }
CategoryPool == { "custom_offer", "delivery", NULL }
ClientTypePool == { "business", NULL }
\* success_rating DECIMAL(3,2), in hundredths; the column has no CHECK
RatingPool == { NullNum, Num(-999), Num(-701), Num(100), Num(300), Num(433),
                Num(500), Num(999) }
ContextMessageTypePool == { "custom_offer", NULL, ABSENT }
ContextClientTypePool == { "business", "startup", ABSENT }

KeywordArrays ==
  { NullArr } \cup
  { Arr(s) : s \in UNION { [1..n -> KeywordPool] : n \in 0..MaxKeywords } }

TemplateRows ==
  [ user_id : { 1 },
    category : CategoryPool,
    client_type : ClientTypePool,
    matching_keywords : KeywordArrays,
    success_rating : RatingPool,
    usage_count : { 0 } ]

ContextPool == [ message_type : ContextMessageTypePool,
                 client_type : ContextClientTypePool ]

StoredTemplateId == 1
MissingTemplateId == 2

(***************************************************************************)
(* calculate_template_match_score                                          *)
(***************************************************************************)
\* array_length(arr, 1): NULL for an empty array
array_length(arr) == IF Len(arr) = 0 THEN NullNum ELSE Num(Len(arr))

\* SELECT COUNT(*) FROM unnest(keywords) WHERE LOWER(msg) LIKE '%'||LOWER(keyword)||'%'
keyword_matches(keywords, client_message) ==
  Cardinality({ i \in 1..Len(keywords) :
    LIKE(LOWER(client_message), <<"%">> \o LOWER(keywords[i]) \o <<"%">>) })

content_similarity(row, client_message) ==
  IF row.matching_keywords.isnull THEN R(0, 1)
  ELSE LET total_keywords == array_length(row.matching_keywords.val)
       IN  IF ~total_keywords.isnull /\ total_keywords.val > 0
           THEN R(keyword_matches(row.matching_keywords.val, client_message),
                  total_keywords.val)
           ELSE R(0, 1)

\* message_context ? key AND message_context->>key = column
ContextMatches(ctx_value, column) ==
  ctx_value # ABSENT /\ SqlEq(ctx_value, column)

context_bonus(row, message_context) ==
  RAdd(IF ContextMatches(message_context.message_type, row.category)
       THEN R(2, 10) ELSE R(0, 1),
       IF ContextMatches(message_context.client_type, row.client_type)
       THEN R(1, 10) ELSE R(0, 1))

\* 1 + (success_rating - 3) * 0.1
SuccessFactor(success_rating) ==
  RAdd(R(1, 1), RMul(R(success_rating - 300, 100), R(1, 10)))

final_score(row, client_message, message_context) ==
  LET weighted == RAdd(RMul(content_similarity(row, client_message), R(6, 10)),
                       RMul(context_bonus(row, message_context), R(4, 10)))
  IN  IF ~row.success_rating.isnull
      THEN RMul(weighted, SuccessFactor(row.success_rating.val))
      ELSE weighted

LeastUnclamped(x, y) == x

\* LEAST(x, y)
Least(x, y) == IF RLeq(x, y) THEN x ELSE y

NotFoundRaises == [status |-> "error", value |-> 0]

\* IF NOT FOUND THEN RETURN 0.0
NotFoundResult == [status |-> "ok", value |-> 0]

calculate_template_match_score(templates, template_id, client_message, message_context) ==
  IF template_id \notin DOMAIN templates THEN NotFoundResult
  ELSE [status |-> "ok",
        value |-> ToDecimal54(Least(final_score(templates[template_id],
                                                client_message, message_context),
                                    R(1, 1)))]

(***************************************************************************)
(* Specification of the scoring function: one stored template, any call    *)
(***************************************************************************)
NoCall == [fn |-> "none"]

\* no request is being handled
NoRequest ==
  [ pc |-> "none", method |-> "none", clientMessage |-> <<>>, messageType |-> NULL,
    client_type |-> ABSENT, user |-> 0, reads |-> {}, templates |-> <<>>,
    recentConversations |-> <<>>, profile |-> NULL,
    refinedResponsesRes |-> [data |-> <<>>, error |-> FALSE],
    similarRefinedResponses |-> <<>>,
    outcome |-> <<>>, templateMatches |-> <<>>, ranked |-> FALSE,
    bestMatches |-> <<>>, prompt |-> [guidance |-> "not built"],
    geminiCalled |-> FALSE,
    response |-> NULL ]

\* no file has been chosen in the upload card
NoUpload ==
  [ pc |-> "idle", file |-> [ext |-> "none", wellFormed |-> TRUE, records |-> <<>>],
    templates |-> <<>>, i |-> 0, successful |-> 0, errors |-> <<>>, session |-> 0,
    isUploading |-> FALSE,
    uploadResults |-> [set |-> FALSE, total |-> 0, successful |-> 0, failed |-> 0,
                       errors |-> <<>>],
    toast |-> "none" ]

\* the chat screen as useState initialises it
NoChat ==
  [ clientMessage |-> <<>>, generatedResponse |-> "", isGenerating |-> FALSE,
    calls |-> <<>>, toast |-> "none",
    isEditing |-> FALSE, editedResponse |-> "", saves |-> <<>>, tracking |-> <<>>,
    \* history: the client message the response on the screen was generated
    \* for, and both as they were when editing began
    generatedFor |-> <<>>, draft |-> "", draftFor |-> <<>> ]

InitScore ==
  /\ \E row \in TemplateRows : message_templates = (StoredTemplateId :> row)
  /\ refined_responses = << >>
  /\ rpc = NoCall
  /\ req = NoRequest
  /\ template_upload_sessions = << >>
  /\ upload = NoUpload
  /\ chat = NoChat

\* one call per behaviour: the function reads the table and writes nothing,
\* so a second call only repeats states
CallMatchScore ==
  /\ rpc.fn = "none"
  /\ \E id \in { StoredTemplateId, MissingTemplateId },
        msg \in MessagePool, ctx \in ContextPool :
    /\ rpc' = [fn |-> "calculate_template_match_score",
               template_id |-> id,
               client_message |-> msg,
               message_context |-> ctx,
               result |-> calculate_template_match_score(message_templates, id, msg, ctx)]
    /\ UNCHANGED <<message_templates, refined_responses, req,
                 template_upload_sessions, upload, chat>>

NextScore == CallMatchScore

SpecScore == InitScore /\ [][NextScore]_vars

(***************************************************************************)
(* refined_responses rows                                                  *)
(***************************************************************************)
MaxRows == 2

UrgentDeliveryNeeded ==
  <<"u", "r", "g", "e", "n", "t", " ", "d", "e", "l", "i", "v", "e", "r", "y", " ",
    "n", "e", "e", "d", "e", "d">>
UrgentDeliveryUpdate ==
  <<"u", "r", "g", "e", "n", "t", " ", "d", "e", "l", "i", "v", "e", "r", "y", " ",
    "u", "p", "d", "a", "t", "e">>

ClientMessagePool ==
  { <<>>, <<"a", " ", "a">>, <<"A", "\n", "b">>, UrgentDeliveryNeeded }
StoredMessagePool == { <<>>, <<"a", " ", "b">>, UrgentDeliveryUpdate }
StoredTypePool == { "custom_offer", NULL }
TypeParamPool == { "custom_offer", "delivery", NULL }
UserPool == { 1, 2 }
LimitPool == { 0, 1, 2 }

RefinedRows ==
  [ user_id : UserPool,
    original_client_message : StoredMessagePool,
    refined_response : { "refined" },
    message_type : StoredTypePool ]

(***************************************************************************)
(* find_similar_refined_responses                                          *)
(***************************************************************************)
RECURSIVE SplitOnSpace(_)
SplitOnSpace(s) ==
  IF \E i \in 1..Len(s) : s[i] = " "
  THEN LET i == CHOOSE k \in 1..Len(s) :
                  s[k] = " " /\ \A j \in 1..(k - 1) : s[j] # " "
       IN  <<SubSeq(s, 1, i - 1)>> \o SplitOnSpace(Drop(s, i))
  ELSE <<s>>

\* string_to_array(s, ' '): the pieces between single spaces; no piece at all
\* for the empty string
string_to_array(s) == IF s = <<>> THEN <<>> ELSE SplitOnSpace(s)

\* GREATEST(a, b): NULL arguments are ignored, NULL only when both are NULL
GREATEST(a, b) ==
  IF a.isnull THEN b
  ELSE IF b.isnull THEN a
  ELSE IF a.val >= b.val THEN a ELSE b

NoTypeBonus(rr, message_type_param) == R(0, 1)

\* CASE WHEN rr.message_type = message_type_param THEN 0.3 ELSE 0.0 END
type_bonus(rr, message_type_param) ==
  IF SqlEq(rr.message_type, message_type_param) THEN R(3, 10) ELSE R(0, 1)

\* SELECT COUNT(*) FROM unnest(words of the client message) AS word1
\* WHERE word1 = ANY(words of the stored message)
matching_words(client_message_param, stored_message) ==
  LET words1 == string_to_array(LOWER(client_message_param))
      words2 == string_to_array(LOWER(stored_message))
  IN  Cardinality({ i \in 1..Len(words1) :
                      \E j \in 1..Len(words2) : words1[i] = words2[j] })

NullScore == [isnull |-> TRUE, val |-> R(0, 1)]
Score(x) == [isnull |-> FALSE, val |-> x]

\* the division is exact here; PostgreSQL keeps 20 fractional digits of it
similarity_score(rr, client_message_param, message_type_param) ==
  LET greatest ==
        GREATEST(array_length(string_to_array(LOWER(client_message_param))),
                 array_length(string_to_array(LOWER(rr.original_client_message))))
  IN  IF greatest.isnull THEN NullScore
      ELSE Score(RAdd(type_bonus(rr, message_type_param),
                      RMul(R(matching_words(client_message_param,
                                            rr.original_client_message),
                             greatest.val),
                           R(7, 10))))

\* ORDER BY ... DESC: a sorts strictly before b (NULLs first)
SortsBefore(a, b) ==
  \/ a.isnull /\ ~b.isnull
  \/ ~a.isnull /\ ~b.isnull /\ RLess(b.val, a.val)

Min(a, b) == IF a <= b THEN a ELSE b

\* every output the query may produce: the first similarity_limit rows of some
\* ordering of the owner's rows by score descending, ties in any order
find_similar_refined_responses(rows, user_id_param, client_message_param, message_type_param, similarity_limit) ==
  LET owned == { id \in DOMAIN rows : rows[id].user_id = user_id_param }
      n == Cardinality(owned)
      score(id) == similarity_score(rows[id], client_message_param, message_type_param)
      orderings ==
        { f \in [1..n -> owned] :
            /\ \A i, j \in 1..n : i # j => f[i] # f[j]
            /\ \A i, j \in 1..n : i < j => ~SortsBefore(score(f[j]), score(f[i])) }
  IN  { [k \in 1..Min(similarity_limit, n) |->
           [id |-> f[k],
            original_client_message |-> rows[f[k]].original_client_message,
            refined_response |-> rows[f[k]].refined_response,
            similarity_score |-> score(f[k])]] : f \in orderings }

(***************************************************************************)
(* Specification of the similarity search: any table of up to MaxRows rows *)
(***************************************************************************)
InitSimilar ==
  /\ message_templates = << >>
  /\ \E n \in 0..MaxRows : refined_responses \in [1..n -> RefinedRows]
  /\ rpc = NoCall
  /\ req = NoRequest
  /\ template_upload_sessions = << >>
  /\ upload = NoUpload
  /\ chat = NoChat

\* one call per behaviour: the function reads the table and writes nothing
CallFindSimilar ==
  /\ rpc.fn = "none"
  /\ \E user \in UserPool, msg \in ClientMessagePool, type \in TypeParamPool,
        limit \in LimitPool :
      \E out \in find_similar_refined_responses(refined_responses, user, msg, type, limit) :
      /\ rpc' = [fn |-> "find_similar_refined_responses",
                 user_id_param |-> user,
                 client_message_param |-> msg,
                 message_type_param |-> type,
                 similarity_limit |-> limit,
                 result |-> out]
      /\ UNCHANGED <<message_templates, refined_responses, req,
                 template_upload_sessions, upload, chat>>

NextSimilar == CallFindSimilar

SpecSimilar == InitSimilar /\ [][NextSimilar]_vars

(***************************************************************************)
(* The gemini-chat edge function: one request through the serve handler    *)
(***************************************************************************)
ScoredTemplatesLimit == 5
BestMatchesLimit == 3
SimilarLimit == 2
\* match.score > 0.3, in ten-thousandths
BestMatchThreshold == 3000

FallbackText == "Thank you for your message! ..."

\* the templates a table may hold while a request is handled
EdgeCatalogue ==
  << [user_id |-> 1, category |-> "custom_offer", client_type |-> "business",
      matching_keywords |-> Arr(<< <<"b">> >>), success_rating |-> NullNum,
      usage_count |-> 6],
     [user_id |-> 2, category |-> "custom_offer", client_type |-> "business",
      matching_keywords |-> Arr(<< <<"b">> >>), success_rating |-> NullNum,
      usage_count |-> 9],
     [user_id |-> 1, category |-> "delivery", client_type |-> NULL,
      matching_keywords |-> Arr(<< <<"a", "_">> >>), success_rating |-> Num(500),
      usage_count |-> 5],
     [user_id |-> 1, category |-> "custom_offer", client_type |-> "business",
      matching_keywords |-> NullArr, success_rating |-> Num(500),
      usage_count |-> 4],
     [user_id |-> 1, category |-> "custom_offer", client_type |-> NULL,
      matching_keywords |-> Arr(<< <<"b">> >>), success_rating |-> Num(-701),
      usage_count |-> 3],
     [user_id |-> 1, category |-> "custom_offer", client_type |-> NULL,
      matching_keywords |-> Arr(<< <<"b">>, <<"A", "b">> >>), success_rating |-> Num(433),
      usage_count |-> 2],
     [user_id |-> 1, category |-> "custom_offer", client_type |-> "business",
      matching_keywords |-> Arr(<< <<"b">> >>), success_rating |-> NullNum,
      usage_count |-> 1] >>

EdgeRefinedTables ==
  { << >>,
    << [user_id |-> 1, original_client_message |-> <<"a", " ", "b">>,
        refined_response |-> "refined", message_type |-> "custom_offer"] >> }

EdgeMessagePool == { <<"a", "b">>, <<"c">> }
EdgeClientTypePool == { ABSENT, "business" }
TokenUsers == { 1 }

Restrict(f, S) == [x \in S |-> f[x]]

\* .from('message_templates').select('*').eq('user_id', u)
\*   .order('usage_count', { ascending: false }): every order the query may give
TemplatesByUsage(rows, u) ==
  LET owned == { id \in DOMAIN rows : rows[id].user_id = u }
      n == Cardinality(owned)
  IN  { f \in [1..n -> owned] :
          /\ \A i, j \in 1..n : i # j => f[i] # f[j]
          /\ \A i, j \in 1..n :
               i < j => rows[f[i]].usage_count >= rows[f[j]].usage_count }

\* templates.slice(0, 5)
Slice(seq, k) == SubSeq(seq, 1, Min(k, Len(seq)))

\* the message_context the handler sends: undefined members are dropped
EdgeContext(r) == [message_type |-> r.messageType, client_type |-> r.client_type]

ErrorResponseDefaultStatus(message) ==
  [status |-> 200, error |-> message, fallback |-> FallbackText,
   generatedResponse |-> NULL]

\* the Response of the catch block
ErrorResponse(message) ==
  [status |-> 500, error |-> message, fallback |-> FallbackText,
   generatedResponse |-> NULL]

InitEdge ==
  /\ \E ids \in SUBSET (1..Len(EdgeCatalogue)) :
       message_templates = Restrict(EdgeCatalogue, ids)
  /\ refined_responses \in EdgeRefinedTables
  /\ rpc = NoCall
  /\ req = NoRequest
  /\ template_upload_sessions = << >>
  /\ upload = NoUpload
  /\ chat = NoChat

\* if (req.method === 'OPTIONS') return new Response(null, ...)
ReceiveOptions ==
  /\ req.pc = "none"
  /\ req' = [req EXCEPT !.pc = "done", !.method = "OPTIONS",
                        !.response = [status |-> 200, error |-> NULL,
                                      fallback |-> NULL, generatedResponse |-> NULL]]
  /\ UNCHANGED <<message_templates, refined_responses, rpc,
               template_upload_sessions, upload, chat>>

\* req.json() and the Authorization header test
ReceivePost ==
  /\ req.pc = "none"
  /\ \E bodyOk \in BOOLEAN, hasAuth \in BOOLEAN,
        msg \in EdgeMessagePool, ct \in EdgeClientTypePool :
       LET r == [req EXCEPT !.method = "POST", !.clientMessage = msg,
                            !.messageType = "custom_offer", !.client_type = ct]
       IN  req' = IF ~bodyOk
                  THEN [req EXCEPT !.method = "POST", !.pc = "done",
                                   !.response = ErrorResponse("Unexpected end of JSON input")]
                  ELSE IF ~hasAuth
                  THEN [r EXCEPT !.pc = "done",
                                 !.response = ErrorResponse("No authorization header")]
                  ELSE [r EXCEPT !.pc = "getUser"]
  /\ UNCHANGED <<message_templates, refined_responses, rpc,
               template_upload_sessions, upload, chat>>

\* supabase.auth.getUser(token)
GetUserReturns ==
  /\ req.pc = "getUser"
  /\ \/ req' = [req EXCEPT !.pc = "done",
                           !.response = ErrorResponse("Invalid user token")]
     \/ \E u \in TokenUsers : req' = [req EXCEPT !.pc = "fetch", !.user = u]
  /\ UNCHANGED <<message_templates, refined_responses, rpc,
               template_upload_sessions, upload, chat>>

\* what supabase.rpc('find_similar_refined_responses', ...) resolves to: the
\* rows, or an error and no rows
RefinedResponsesResults(r) ==
  { [data |-> out, error |-> FALSE] :
      out \in find_similar_refined_responses(refined_responses, r.user,
                r.clientMessage, r.messageType, SimilarLimit) }
    \cup { [data |-> << >>, error |-> TRUE] }

\* the four reads joined by Promise.all, and the defaults taken from them
\* (refinedResponsesRes.data || [])
FetchReturns ==
  /\ req.pc = "fetch"
  /\ \E templates \in TemplatesByUsage(message_templates, req.user) \cup { << >> },
        refinedResponsesRes \in RefinedResponsesResults(req) :
       LET scored == Slice(templates, ScoredTemplatesLimit)
           similar == refinedResponsesRes.data
       IN  req' = [req EXCEPT
                     !.refinedResponsesRes = refinedResponsesRes,
                     !.pc = "scoring",
                     !.reads = { "message_templates", "conversations", "profiles",
                                 "refined_responses" },
                     !.templates = templates,
                     !.recentConversations = << >>,
                     !.profile = NULL,
                     !.similarRefinedResponses = similar,
                     !.outcome = [i \in 1..Len(scored) |-> "pending"],
                     !.templateMatches = [i \in 1..Len(scored) |->
                                            [template |-> scored[i], score |-> 0]]]
  /\ UNCHANGED <<message_templates, refined_responses, rpc,
               template_upload_sessions, upload, chat>>

\* the score a settled scoring call leaves in templateMatches
SettledWithoutCatch(r, i, how) ==
  IF how = "threw"
  THEN [r EXCEPT !.pc = "done", !.outcome[i] = how,
                 !.response = ErrorResponse("scoring call failed")]
  ELSE [r EXCEPT !.outcome[i] = how,
                 !.templateMatches[i].score =
                   IF how = "ok"
                   THEN calculate_template_match_score(message_templates,
                          r.templateMatches[i].template, r.clientMessage,
                          EdgeContext(r)).value
                   ELSE 0]

\* try { const { data: score } = await supabase.rpc(...);
\*       return { template, score: score || 0 } } catch { return { template, score: 0 } }
Settled(r, i, how) ==
  [r EXCEPT !.outcome[i] = how,
            !.templateMatches[i].score =
              IF how = "ok"
              THEN calculate_template_match_score(message_templates,
                     r.templateMatches[i].template, r.clientMessage,
                     EdgeContext(r)).value
              ELSE 0]

\* one of the scoring calls issued by the map over templates.slice(0, 5) settles:
\* it returns a score, returns an error with data null, or throws
ScoreReturns ==
  /\ req.pc = "scoring"
  /\ \E i \in 1..Len(req.outcome), how \in { "ok", "error", "threw" } :
       /\ req.outcome[i] = "pending"
       /\ req' = Settled(req, i, how)
  /\ UNCHANGED <<message_templates, refined_responses, rpc,
               template_upload_sessions, upload, chat>>

\* stable sort of the matches by score descending
RECURSIVE SortByScore(_)
SortByScore(ms) ==
  IF ms = << >> THEN << >>
  ELSE LET top == CHOOSE i \in 1..Len(ms) :
                    /\ \A j \in 1..Len(ms) : ms[j].score <= ms[i].score
                    /\ \A j \in 1..(i - 1) : ms[j].score < ms[i].score
       IN  <<ms[top]>> \o SortByScore(SubSeq(ms, 1, top - 1) \o Drop(ms, top))

\* templateMatches.filter(m => m.score > 0.3).sort((a, b) => b.score - a.score).slice(0, 3)
BestMatches(templateMatches) ==
  Slice(SortByScore(SelectSeq(templateMatches,
                              LAMBDA m : m.score > BestMatchThreshold)),
        BestMatchesLimit)

SystemPromptExamplesOnly(r) ==
  [ username |-> IF r.profile = NULL THEN "Not set" ELSE r.profile,
    savedTemplates |-> Len(r.templates),
    conversationPatterns |-> Slice(r.recentConversations, 3),
    messageType |-> r.messageType,
    examples |-> [k \in 1..Len(r.similarRefinedResponses) |->
                    r.similarRefinedResponses[k].id],
    guidance |-> "refined examples",
    clientMessage |-> r.clientMessage ]

\* the parts of systemPrompt that vary with the request
SystemPrompt(r) ==
  [ username |-> IF r.profile = NULL THEN "Not set" ELSE r.profile,
    savedTemplates |-> Len(r.templates),
    conversationPatterns |-> Slice(r.recentConversations, 3),
    messageType |-> r.messageType,
    examples |-> IF Len(r.similarRefinedResponses) > 0
                 THEN [k \in 1..Len(r.similarRefinedResponses) |->
                         r.similarRefinedResponses[k].id]
                 ELSE << >>,
    guidance |-> IF Len(r.similarRefinedResponses) > 0
                 THEN "refined examples" ELSE "general guidelines",
    clientMessage |-> r.clientMessage ]

\* all scoring calls have settled: ranking, prompt, and the call to Gemini
RankAndPrompt ==
  /\ req.pc = "scoring"
  /\ \A i \in 1..Len(req.outcome) : req.outcome[i] # "pending"
  /\ req' = [req EXCEPT !.pc = "gemini", !.ranked = TRUE,
                        !.bestMatches = BestMatches(req.templateMatches),
                        !.prompt = SystemPrompt(req),
                        !.geminiCalled = TRUE]
  /\ UNCHANGED <<message_templates, refined_responses, rpc,
               template_upload_sessions, upload, chat>>

\* the Gemini call settles
GeminiReturns ==
  /\ req.pc = "gemini"
  /\ \E how \in { "text", "empty", "http error", "network error", "no candidates" } :
       req' = [req EXCEPT
                 !.pc = "done",
                 !.response =
                   CASE how = "text" ->
                          [status |-> 200, error |-> NULL, fallback |-> NULL,
                           generatedResponse |-> "generated"]
                     [] how = "empty" ->
                          [status |-> 200, error |-> NULL, fallback |-> NULL,
                           generatedResponse |-> ""]
                     [] how = "http error" ->
                          ErrorResponse("Failed to generate response with Gemini")
                     [] how = "network error" -> ErrorResponse("fetch failed")
                     [] OTHER ->
                          ErrorResponse("Cannot read properties of undefined")]
  /\ UNCHANGED <<message_templates, refined_responses, rpc,
               template_upload_sessions, upload, chat>>

NextEdge ==
  \/ ReceiveOptions
  \/ ReceivePost
  \/ GetUserReturns
  \/ FetchReturns
  \/ ScoreReturns
  \/ RankAndPrompt
  \/ GeminiReturns

SpecEdge == InitEdge /\ [][NextEdge]_vars

(***************************************************************************)
(* Claims about calculate_template_match_score                             *)
(***************************************************************************)
ScoreCalled == rpc.fn = "calculate_template_match_score"
ScoredExisting == ScoreCalled /\ rpc.template_id \in DOMAIN message_templates
ScoredRow == message_templates[rpc.template_id]

\* C1: the returned score lies in [0, 1] whenever the template's
\* success_rating is absent or lies in [1, 5]; for a success_rating above 5
\* the returned score is still at most 1.
C1_ScoreInUnitInterval ==
  ScoredExisting =>
    /\ (ScoredRow.success_rating.isnull
        \/ (ScoredRow.success_rating.val >= 100 /\ ScoredRow.success_rating.val <= 500))
         => (rpc.result.value >= 0 /\ rpc.result.value <= 10000)
    /\ (~ScoredRow.success_rating.isnull /\ ScoredRow.success_rating.val > 500)
         => rpc.result.value <= 10000

\* a template rated above 5 whose unclamped score exceeds 1 was scored
C1_Witness ==
  /\ ScoredExisting
  /\ ~ScoredRow.success_rating.isnull
  /\ ScoredRow.success_rating.val > 500
  /\ RLess(R(1, 1), final_score(ScoredRow, rpc.client_message, rpc.message_context))
  /\ rpc.result.value = 10000

\* the score the claims describe: keywords counted by plain substring test
SubstringMatches(keywords, client_message) ==
  Cardinality({ i \in 1..Len(keywords) :
    IsSubstring(LOWER(keywords[i]), LOWER(client_message)) })

SubstringFraction(row, client_message) ==
  IF row.matching_keywords.isnull \/ Len(row.matching_keywords.val) = 0
  THEN R(0, 1)
  ELSE R(SubstringMatches(row.matching_keywords.val, client_message),
         Len(row.matching_keywords.val))

ClaimedBonus(row, ctx) ==
  RAdd(IF ctx.message_type \notin { ABSENT, NULL } /\ ctx.message_type = row.category
       THEN R(2, 10) ELSE R(0, 1),
       IF ctx.client_type \notin { ABSENT, NULL } /\ ctx.client_type = row.client_type
       THEN R(1, 10) ELSE R(0, 1))

ClaimedFactor(row) ==
  IF row.success_rating.isnull THEN R(1, 1)
  ELSE R(1000 + (row.success_rating.val - 300), 1000)

ClaimedScore(row, client_message, ctx) ==
  LET x == RMul(RAdd(RMul(SubstringFraction(row, client_message), R(6, 10)),
                     RMul(ClaimedBonus(row, ctx), R(4, 10))),
                ClaimedFactor(row))
  IN  IF RLeq(x, R(1, 1)) THEN x ELSE R(1, 1)

\* C2: for a template that exists the returned score is
\* min(1, (r*0.6 + b*0.4) * f) (in the DECIMAL(5,4) of the return type), r the
\* fraction of the template's keywords that occur as a case-insensitive
\* substring of the client message, b the context bonus, f the success factor.
C2_SubstringFormula ==
  ScoredExisting =>
    rpc.result.value =
      ToDecimal54(ClaimedScore(ScoredRow, rpc.client_message, rpc.message_context))

\* C3: with the template and the context fixed, a message containing at least
\* as large a fraction of the template's keywords as substrings as another
\* message scores at least as high as that other message.
C3_Monotone ==
  ScoredExisting =>
    \A m1 \in MessagePool :
      RLeq(SubstringFraction(ScoredRow, m1),
           SubstringFraction(ScoredRow, rpc.client_message))
        => calculate_template_match_score(message_templates, rpc.template_id,
                                          m1, rpc.message_context).value
             <= rpc.result.value

\* C4: the returned score is never negative, whatever success_rating the
\* template row stores.
C4_NeverNegative ==
  ScoreCalled => rpc.result.value >= 0

\* C5: scoring a template id that does not exist returns score 0 as a
\* normal value and raises no error.
C5_MissingTemplateScoresZero ==
  (ScoreCalled /\ rpc.template_id \notin DOMAIN message_templates)
    => rpc.result = [status |-> "ok", value |-> 0]

\* the missing id was scored
C5_Witness ==
  /\ ScoreCalled
  /\ rpc.template_id \notin DOMAIN message_templates
  /\ rpc.result.status = "ok"

(***************************************************************************)
(* Claims about find_similar_refined_responses                             *)
(***************************************************************************)
SimilarCalled == rpc.fn = "find_similar_refined_responses"

IsWhitespace(c) == c \in { " ", "\n", "\t" }

\* the words of a text in the sense of the claims: maximal runs of
\* non-whitespace characters
RECURSIVE WhitespaceWords(_)
WhitespaceWords(s) ==
  IF s = <<>> THEN <<>>
  ELSE IF IsWhitespace(Head(s)) THEN WhitespaceWords(Tail(s))
  ELSE LET stop == IF \E i \in 1..Len(s) : IsWhitespace(s[i])
                   THEN CHOOSE k \in 1..Len(s) :
                          IsWhitespace(s[k]) /\ \A j \in 1..(k - 1) : ~IsWhitespace(s[j])
                   ELSE Len(s) + 1
       IN  <<SubSeq(s, 1, stop - 1)>> \o WhitespaceWords(Drop(s, stop - 1))

Max(a, b) == IF a >= b THEN a ELSE b

ClaimedSimilarity(stored_message, stored_type, client_message, type_param) ==
  LET w1 == WhitespaceWords(LOWER(client_message))
      w2 == WhitespaceWords(LOWER(stored_message))
      common == Cardinality({ i \in 1..Len(w1) : \E j \in 1..Len(w2) : w1[i] = w2[j] })
      bonus == IF type_param # NULL /\ stored_type = type_param
               THEN R(3, 10) ELSE R(0, 1)
  IN  RAdd(bonus, RMul(R(common, Max(Len(w1), Len(w2))), R(7, 10)))

\* C7: every returned similarity_score equals type_bonus + overlap, with
\* type_bonus 0.3 exactly when a messageType was given and the stored type
\* equals it, and overlap = (whitespace-delimited lower-cased words of the
\* client message found as whole words in the stored message) / max(word
\* counts) * 0.7.  (Rows where both texts have no word are left aside.)
C7_WhitespaceWordFormula ==
  SimilarCalled =>
    \A k \in 1..Len(rpc.result) :
      LET rr == refined_responses[rpc.result[k].id]
      IN  (WhitespaceWords(rpc.client_message_param) # <<>>
           \/ WhitespaceWords(rr.original_client_message) # <<>>)
            => rpc.result[k].similarity_score =
                 Score(ClaimedSimilarity(rr.original_client_message, rr.message_type,
                                         rpc.client_message_param,
                                         rpc.message_type_param))

\* C8: every returned similarity_score is a number in [0, 1].
C8_SimilarityInUnitInterval ==
  SimilarCalled =>
    \A k \in 1..Len(rpc.result) :
      /\ ~rpc.result[k].similarity_score.isnull
      /\ RLeq(R(0, 1), rpc.result[k].similarity_score.val)
      /\ RLeq(rpc.result[k].similarity_score.val, R(1, 1))

UrgentCase(k) ==
  /\ SimilarCalled
  /\ rpc.client_message_param = UrgentDeliveryNeeded
  /\ k \in 1..Len(rpc.result)
  /\ rpc.result[k].original_client_message = UrgentDeliveryUpdate
  /\ rpc.message_type_param # NULL
  /\ refined_responses[rpc.result[k].id].message_type = rpc.message_type_param

\* C9 as stated: "urgent delivery needed" against a stored "urgent delivery
\* update" of the requested messageType scores 1.0.
C9_UrgentScoresOne ==
  \A k \in 1..MaxRows :
    UrgentCase(k) => rpc.result[k].similarity_score = Score(R(1, 1))

\* C9 amended: "urgent delivery needed" against a stored "urgent delivery
\* update" of the requested messageType scores 0.3 + (2/3)*0.7 = 23/30: two
\* of the three client words occur in the stored message.
C9_UrgentScoresTwoThirds ==
  \A k \in 1..MaxRows :
    UrgentCase(k) => rpc.result[k].similarity_score = Score(R(23, 30))

\* the urgent-delivery pair was searched and returned
C9_Witness == \E k \in 1..MaxRows : UrgentCase(k)

\* a score as a caller compares it: a missing score is no number and counts
\* as 0 (the edge function multiplies it by 100)
ScoreValue(sc) == IF sc.isnull THEN R(0, 1) ELSE sc.val

\* C10: the result has at most `limit` rows, all owned by ownerId, in
\* descending order of similarity_score, and no row of the owner that was left
\* out has a strictly higher score than a returned row.
C10_TopK ==
  SimilarCalled =>
    LET out == rpc.result
        returned == { out[k].id : k \in 1..Len(out) }
        sc(id) == ScoreValue(similarity_score(refined_responses[id],
                                              rpc.client_message_param,
                                              rpc.message_type_param))
    IN  /\ Len(out) <= rpc.similarity_limit
        /\ \A k \in 1..Len(out) :
             refined_responses[out[k].id].user_id = rpc.user_id_param
        /\ \A i, j \in 1..Len(out) :
             i < j => RLeq(ScoreValue(out[j].similarity_score),
                           ScoreValue(out[i].similarity_score))
        /\ \A id \in DOMAIN refined_responses :
             (refined_responses[id].user_id = rpc.user_id_param /\ id \notin returned)
               => \A r \in returned : ~RLess(sc(r), sc(id))

(***************************************************************************)
(* Claims about the gemini-chat edge function                              *)
(***************************************************************************)
ScoringFailed(i) == req.outcome[i] \in { "error", "threw" }

\* C6: when scoring calls of a request fail (throw, or return an error and no
\* score), each failed template gets score 0, every other template keeps the
\* score its own call returned, and the request goes on to ranking and prompt
\* generation: it does not end before them.
C6_ScoringFailuresIsolated ==
  /\ \A i \in 1..Len(req.outcome) :
       /\ ScoringFailed(i) => req.templateMatches[i].score = 0
       /\ req.outcome[i] = "ok" =>
            req.templateMatches[i].score =
              calculate_template_match_score(message_templates,
                req.templateMatches[i].template, req.clientMessage,
                EdgeContext(req)).value
  /\ (req.pc = "done" /\ \E i \in 1..Len(req.outcome) : ScoringFailed(i))
       => (req.ranked /\ req.prompt.guidance # "not built" /\ req.geminiCalled)

\* a request finished after one scoring call threw, one returned an error and
\* one returned a score above zero
C6_Witness ==
  /\ req.pc = "done"
  /\ req.ranked
  /\ \E i, j, k \in 1..Len(req.outcome) :
       /\ req.outcome[i] = "threw"
       /\ req.outcome[j] = "error"
       /\ req.outcome[k] = "ok"
       /\ req.templateMatches[k].score > 0

(***************************************************************************)
(* Claims about the similarity search, continued                           *)
(***************************************************************************)
WordCount(s) == Len(string_to_array(LOWER(s)))

\* C11: no returned similarity_score is NULL: when the client message, the
\* stored message or both have no words, the word count that divides is taken
\* as at least 1 and the score is the number this gives.
C11_ScoreNeverNull ==
  SimilarCalled =>
    \A k \in 1..Len(rpc.result) :
      LET rr == refined_responses[rpc.result[k].id]
          denominator == Max(1, Max(WordCount(rpc.client_message_param),
                                    WordCount(rr.original_client_message)))
      IN  (WordCount(rpc.client_message_param) = 0
             \/ WordCount(rr.original_client_message) = 0)
            => rpc.result[k].similarity_score =
                 Score(RAdd(type_bonus(rr, rpc.message_type_param),
                            RMul(R(matching_words(rpc.client_message_param,
                                                  rr.original_client_message),
                                   denominator),
                                 R(7, 10))))

(***************************************************************************)
(* Claims about the gemini-chat edge function, continued                   *)
(***************************************************************************)
NothingSimilar ==
  \/ req.refinedResponsesRes.error
  \/ \A id \in DOMAIN refined_responses : refined_responses[id].user_id # req.user

\* C12: when the user owns no refined responses, or the similarity search
\* returns an error, the request takes the similar set as empty, goes on to
\* ranking and the Gemini call instead of failing, and its prompt carries the
\* general-guidelines text and no refined example.
C12_NothingSimilarIsGeneric ==
  ("refined_responses" \in req.reads /\ NothingSimilar) =>
    /\ req.similarRefinedResponses = << >>
    /\ req.pc \in { "gemini", "done" } =>
         /\ req.ranked
         /\ req.geminiCalled
         /\ req.prompt.guidance = "general guidelines"
         /\ req.prompt.examples = << >>

\* a request answered with generated text although the similarity search
\* returned an error while the user owned a refined response
C12_Witness ==
  /\ req.pc = "done"
  /\ req.response.status = 200
  /\ req.refinedResponsesRes.error
  /\ \E id \in DOMAIN refined_responses : refined_responses[id].user_id = req.user
  /\ req.prompt.guidance = "general guidelines"

(***************************************************************************)
(* TemplateUpload.tsx: analyzeTemplateContent                              *)
(***************************************************************************)
KeywordLimit == 12

commonWords ==
  { Text(w) : w \in
      { "the", "and", "or", "but", "in", "on", "at", "to", "for", "of", "with",
        "by", "a", "an", "is", "are", "was", "were", "be", "been", "being",
        "have", "has", "had", "do", "does", "did", "will", "would", "could",
        "should", "may", "might", "must", "can", "this", "that", "these",
        "those", "i", "you", "he", "she", "it", "we", "they", "me", "him",
        "her", "us", "them", "your", "our", "their" } }

\* the length of the run of word characters that starts s
RECURSIVE WordRun(_)
WordRun(s) ==
  IF s = <<>> \/ ~IsWordChar(Head(s)) THEN 0 ELSE 1 + WordRun(Tail(s))

\* content.match(/\b\w+\b/g) || [] : the maximal runs of word characters
RECURSIVE Words(_)
Words(s) ==
  IF s = <<>> THEN <<>>
  ELSE IF WordRun(s) = 0 THEN Words(Tail(s))
  ELSE <<SubSeq(s, 1, WordRun(s))>> \o Words(Drop(s, WordRun(s)))

\* word.length > 3 && !commonWords.includes(word.toLowerCase())
IsSignificant(word) == Len(word) > 3 /\ LOWER(word) \notin commonWords

RECURSIVE LowerAll(_)
LowerAll(ws) == IF ws = <<>> THEN <<>> ELSE <<LOWER(Head(ws))>> \o LowerAll(Tail(ws))

\* .filter((word, index, arr) => arr.indexOf(word) === index)
RECURSIVE FirstOccurrencesFrom(_, _)
FirstOccurrencesFrom(arr, index) ==
  IF index > Len(arr) THEN <<>>
  ELSE (IF \E j \in 1..(index - 1) : arr[j] = arr[index] THEN <<>> ELSE <<arr[index]>>)
         \o FirstOccurrencesFrom(arr, index + 1)

significantWordsCaseSensitive(content) ==
  Slice(LowerAll(FirstOccurrencesFrom(SelectSeq(Words(content), IsSignificant), 1)),
        KeywordLimit)

\* words.filter(...).map(word => word.toLowerCase()).filter(first occurrence).slice(0, 12)
significantWords(content) ==
  Slice(FirstOccurrencesFrom(LowerAll(SelectSeq(Words(content), IsSignificant)), 1),
        KeywordLimit)

\* /(p1|p2|...)/i.test(content) for literal alternatives
Test(phrases, content) ==
  LET lowerContent == LOWER(content)
  IN  \E p \in phrases : IsSubstring(p, lowerContent)

\* the alternatives of a pattern as character sequences
Phrases(alternatives) == { Text(w) : w \in alternatives }

\* the category patterns in the order categoryScores declares its keys, with
\* the amount a match adds
CategoryIndicators ==
  << [category |-> "client_onboarding", weight |-> 3,
      phrases |-> Phrases({ "welcome", "hello", "thank you for choosing", "excited to work",
                    "get started", "onboard" })],
     [category |-> "custom_offer", weight |-> 3,
      phrases |-> Phrases({ "proposal", "custom offer", "price", "investment", "budget",
                    "quote", "estimate" })],
     [category |-> "revision_handling", weight |-> 3,
      phrases |-> Phrases({ "revision", "feedback", "changes", "modify", "update", "adjust" })],
     [category |-> "delivery", weight |-> 3,
      phrases |-> Phrases({ "delivery", "completed", "final", "finished", "ready", "done" })],
     [category |-> "follow_up", weight |-> 2,
      phrases |-> Phrases({ "follow up", "check in", "progress", "status", "update" })],
     [category |-> "upselling", weight |-> 2,
      phrases |-> Phrases({ "additional", "upgrade", "premium", "extra", "more", "enhance" })],
     [category |-> "requirements_gathering", weight |-> 2,
      phrases |-> Phrases({ "requirements", "clarify", "understand", "details", "specific",
                    "information" })] >>

\* Object.entries(categoryScores) after the seven tests
categoryScores(content) ==
  [i \in 1..Len(CategoryIndicators) |->
     [category |-> CategoryIndicators[i].category,
      score |-> IF Test(CategoryIndicators[i].phrases, content)
                THEN CategoryIndicators[i].weight ELSE 0]]

TopCategoryLastDeclared(entries) ==
  entries[CHOOSE i \in 1..Len(entries) :
            /\ \A j \in 1..Len(entries) : entries[j].score <= entries[i].score
            /\ \A j \in (i + 1)..Len(entries) : entries[j].score < entries[i].score].category

\* entries.sort(([,a], [,b]) => b - a)[0][0] || 'custom' : the sort is stable
\* and a key is never the empty string
TopCategory(entries) ==
  LET first == SortByScore(entries)[1].category
  IN  IF first = "" THEN "custom" ELSE first

ToneIndicators ==
  << [value |-> "warm",
      phrases |-> Phrases({ "excited", "amazing", "wonderful", "fantastic", "love",
                    "passion", "!!" })],
     [value |-> "consultative",
      phrases |-> Phrases({ "strategic", "analysis", "recommend", "suggest",
                    "best practice", "optimize" })],
     [value |-> "efficient",
      phrases |-> Phrases({ "quickly", "efficient", "fast", "immediate", "asap", "urgent" })],
     [value |-> "formal",
      phrases |-> Phrases({ "sincerely", "respectfully", "formal", "official", "regards" })],
     [value |-> "collaborative",
      phrases |-> Phrases({ "together", "collaborate", "partnership", "team", "work with" })] >>

ComplexityIndicators ==
  << [value |-> "complex",
      phrases |-> Phrases({ "complex", "advanced", "enterprise", "large scale",
                    "sophisticated" })],
     [value |-> "simple",
      phrases |-> Phrases({ "simple", "basic", "quick", "small", "minor" })] >>

ClientTypeIndicators ==
  << [value |-> "startup", phrases |-> Phrases({ "startup", "new business", "entrepreneur" })],
     [value |-> "enterprise",
      phrases |-> Phrases({ "enterprise", "corporation", "large company" })],
     [value |-> "individual", phrases |-> Phrases({ "individual", "personal", "freelancer" })],
     [value |-> "agency", phrases |-> Phrases({ "agency", "marketing", "design" })] >>

LastMatching(indicators, content, default) ==
  IF \E i \in 1..Len(indicators) : Test(indicators[i].phrases, content)
  THEN indicators[CHOOSE i \in 1..Len(indicators) :
                    /\ Test(indicators[i].phrases, content)
                    /\ \A j \in (i + 1)..Len(indicators) :
                         ~Test(indicators[j].phrases, content)].value
  ELSE default

\* let x = default; if (p1.test(content)) x = v1; else if (p2.test(content)) x = v2; ...
RECURSIVE FirstMatching(_, _, _)
FirstMatching(indicators, content, default) ==
  IF indicators = <<>> THEN default
  ELSE IF Test(Head(indicators).phrases, content) THEN Head(indicators).value
  ELSE FirstMatching(Tail(indicators), content, default)

analyzeTemplateContent(content) ==
  [ keywords |-> significantWords(content),
    category |-> TopCategory(categoryScores(content)),
    tone |-> FirstMatching(ToneIndicators, content, "professional"),
    complexity |-> FirstMatching(ComplexityIndicators, content, "standard"),
    clientType |-> FirstMatching(ClientTypeIndicators, content, "business") ]

(***************************************************************************)
(* The template texts the analysis is examined on                          *)
(***************************************************************************)
MaxTextWords == 13

\* the words of a list whose index is in S, in the order of the list
RECURSIVE PickWords(_, _, _)
PickWords(list, S, i) ==
  IF i > Len(list) THEN <<>>
  ELSE (IF i \in S THEN <<list[i]>> ELSE <<>>) \o PickWords(list, S, i + 1)

RECURSIVE Join(_, _)
Join(ws, sep) ==
  IF ws = <<>> THEN <<>>
  ELSE IF Len(ws) = 1 THEN Text(ws[1])
  ELSE Text(ws[1]) \o Text(sep) \o Join(Tail(ws), sep)

IndicatorWordLists ==
  { << "Welcome", "proposal", "update", "final", "status", "more", "details" >>,
    << "Excited", "suggest", "fast", "Regards", "team", "!!" >>,
    << "enterprise", "simple", "startup", "personal", "agency" >> }

IndicatorText(list, S) == Join(PickWords(list, S, 1), " ")

PlainWordList ==
  << "alpha", "Bravo", "charlie", "delta4", "echo_", "Foxtrot", "golf", "hotel",
     "india", "juliet", "kilo", "lima", "mike", "november", "oscar", "papa" >>

\* a word met again in another case, stop words in upper case, a short word
SpecialWords == { "ALPHA", "bravo", "Their", "SHOULD", "abc" }

\* the first n plain words with a special word put in after the p-th
PlainText(n, p, special, sep) ==
  Join(SubSeq(PlainWordList, 1, p) \o <<special>> \o SubSeq(PlainWordList, p + 1, n),
       sep)

(***************************************************************************)
(* TemplateUpload.tsx: formatTemplateContent                               *)
(***************************************************************************)
\* content.trim()
RECURSIVE TrimStart(_)
TrimStart(s) == IF s # <<>> /\ IsSpace(Head(s)) THEN TrimStart(Tail(s)) ELSE s

RECURSIVE TrimEnd(_)
TrimEnd(s) ==
  IF s # <<>> /\ IsSpace(s[Len(s)]) THEN TrimEnd(SubSeq(s, 1, Len(s) - 1)) ELSE s

trim(s) == TrimEnd(TrimStart(s))

\* .replace(/\r\n/g, '\n').replace(/\r/g, '\n')
RECURSIVE NormalizeLineBreaks(_)
NormalizeLineBreaks(s) ==
  IF s = <<>> THEN <<>>
  ELSE IF Head(s) = "\r" /\ Len(s) >= 2 /\ s[2] = "\n"
       THEN <<"\n">> \o NormalizeLineBreaks(Drop(s, 2))
  ELSE IF Head(s) = "\r" THEN <<"\n">> \o NormalizeLineBreaks(Tail(s))
  ELSE <<Head(s)>> \o NormalizeLineBreaks(Tail(s))

\* .replace(/\n{3,}/g, '\n\n')
RECURSIVE CollapseBlankLines(_)
CollapseBlankLines(s) ==
  IF s = <<>> THEN <<>>
  ELSE IF Len(s) >= 3 /\ s[1] = "\n" /\ s[2] = "\n" /\ s[3] = "\n"
       THEN CollapseBlankLines(Tail(s))
  ELSE <<Head(s)>> \o CollapseBlankLines(Tail(s))

\* .replace(/[ \t]+/g, ' ')
RECURSIVE CollapseSpaces(_)
CollapseSpaces(s) ==
  IF s = <<>> THEN <<>>
  ELSE IF Head(s) \in { " ", "\t" }
       THEN IF Len(s) >= 2 /\ s[2] \in { " ", "\t" }
            THEN CollapseSpaces(Tail(s))
            ELSE <<" ">> \o CollapseSpaces(Tail(s))
  ELSE <<Head(s)>> \o CollapseSpaces(Tail(s))

\* position i follows (^|[.!?]\s+): it is the start of the text, or a run of
\* at least one white-space character after '.', '!' or '?' ends just before it
AfterSentenceEnd(s, i) ==
  \/ i = 1
  \/ \E j \in 1..(i - 2) :
       /\ s[j] \in { ".", "!", "?" }
       /\ \A k \in (j + 1)..(i - 1) : IsSpace(s[k])

\* .replace(/(^|[.!?]\s+)([a-z])/g, (match, p1, p2) => p1 + p2.toUpperCase())
RECURSIVE CapitalizeFrom(_, _)
CapitalizeFrom(s, i) ==
  IF i > Len(s) THEN <<>>
  ELSE <<IF IsLower(s[i]) /\ AfterSentenceEnd(s, i) THEN UpperChar[s[i]] ELSE s[i]>>
         \o CapitalizeFrom(s, i + 1)

\* the first character after the white-space run that holds position i is
\* one of . , ! ?
BeforePunctuation(s, i) ==
  \E j \in (i + 1)..Len(s) :
    /\ s[j] \in { ".", ",", "!", "?" }
    /\ \A k \in i..(j - 1) : IsSpace(s[k])

\* .replace(/\s+([.,!?])/g, '$1')
RECURSIVE RemoveSpaceBeforePunctuationFrom(_, _)
RemoveSpaceBeforePunctuationFrom(s, i) ==
  IF i > Len(s) THEN <<>>
  ELSE (IF IsSpace(s[i]) /\ BeforePunctuation(s, i) THEN <<>> ELSE <<s[i]>>)
         \o RemoveSpaceBeforePunctuationFrom(s, i + 1)

RECURSIVE SpaceBeforeAnyLetter(_)
SpaceBeforeAnyLetter(s) ==
  IF s = <<>> THEN <<>>
  ELSE IF Len(s) >= 2 /\ s[1] \in { ".", "!", "?" } /\ (IsUpper(s[2]) \/ IsLower(s[2]))
       THEN <<s[1], " ">> \o SpaceBeforeAnyLetter(Tail(s))
  ELSE <<Head(s)>> \o SpaceBeforeAnyLetter(Tail(s))

\* .replace(/([.!?])([A-Z])/g, '$1 $2')
RECURSIVE SpaceBeforeCapital(_)
SpaceBeforeCapital(s) ==
  IF s = <<>> THEN <<>>
  ELSE IF Len(s) >= 2 /\ s[1] \in { ".", "!", "?" } /\ IsUpper(s[2])
       THEN <<s[1], " ">> \o SpaceBeforeCapital(Tail(s))
  ELSE <<Head(s)>> \o SpaceBeforeCapital(Tail(s))

\* s.startsWith(prefix)
StartsWith(s, prefix) == Len(s) >= Len(prefix) /\ SubSeq(s, 1, Len(prefix)) = prefix

\* the length of the match of /^(hi|hello)\s*/i
GreetingMatch(s) ==
  LET word == IF StartsWith(LOWER(s), Text("hi")) THEN 2
              ELSE IF StartsWith(LOWER(s), Text("hello")) THEN 5 ELSE 0
  IN  IF word = 0 THEN 0
      ELSE word + (Len(Drop(s, word)) - Len(TrimStart(Drop(s, word))))

\* if (lower.startsWith('hi ') || lower.startsWith('hello '))
\*   replace(/^(hi|hello)\s*/i, match => match.charAt(0).toUpperCase() + match.slice(1).toLowerCase())
FormatGreeting(s) ==
  IF StartsWith(LOWER(s), Text("hi ")) \/ StartsWith(LOWER(s), Text("hello "))
  THEN <<UpperChar[s[1]]>> \o LOWER(SubSeq(s, 2, GreetingMatch(s)))
         \o Drop(s, GreetingMatch(s))
  ELSE s

formatTemplateContent(content) ==
  FormatGreeting(
    SpaceBeforeCapital(
      RemoveSpaceBeforePunctuationFrom(
        CapitalizeFrom(
          CollapseSpaces(CollapseBlankLines(NormalizeLineBreaks(trim(content)))),
          1),
        1)))

(***************************************************************************)
(* The contents the formatting is examined on: up to MaxPieces pieces      *)
(***************************************************************************)
MaxPieces == 4

FormatPieces ==
  { Text(w) : w \in { "hi", "HELLO", "a", "B", " ", "\t", "\n", "\r", ".", "!", "," } }

RECURSIVE Concat(_)
Concat(pieces) == IF pieces = <<>> THEN <<>> ELSE Head(pieces) \o Concat(Tail(pieces))

(***************************************************************************)
(* Specification of the analysis: one call on any of the texts             *)
(***************************************************************************)
InitContent ==
  /\ message_templates = << >>
  /\ refined_responses = << >>
  /\ rpc = NoCall
  /\ req = NoRequest
  /\ template_upload_sessions = << >>
  /\ upload = NoUpload
  /\ chat = NoChat

CallAnalyzeOn(content) ==
  rpc' = [fn |-> "analyzeTemplateContent", content |-> content,
          returned |-> FALSE, result |-> analyzeTemplateContent(<<>>)]

CallAnalyze ==
  /\ rpc.fn = "none"
  /\ \/ \E content \in { <<>>, Text("Kind note.") } : CallAnalyzeOn(content)
     \/ \E list \in IndicatorWordLists, S \in SUBSET (1..7) :
          CallAnalyzeOn(IndicatorText(list, S))
     \/ \E n \in 0..MaxTextWords :
          \E p \in 0..n, special \in SpecialWords, sep \in { " ", ", " } :
            CallAnalyzeOn(PlainText(n, p, special, sep))
  /\ UNCHANGED <<message_templates, refined_responses, req,
                 template_upload_sessions, upload, chat>>

ReturnAnalyze ==
  /\ rpc.fn = "analyzeTemplateContent"
  /\ ~rpc.returned
  /\ rpc' = [rpc EXCEPT !.returned = TRUE,
                        !.result = analyzeTemplateContent(rpc.content)]
  /\ UNCHANGED <<message_templates, refined_responses, req,
                 template_upload_sessions, upload, chat>>

NextContent == CallAnalyze \/ ReturnAnalyze

SpecContent == InitContent /\ [][NextContent]_vars

(***************************************************************************)
(* Specification of the formatting: one call on any of the contents        *)
(***************************************************************************)
CallFormat ==
  /\ rpc.fn = "none"
  /\ \E n \in 0..MaxPieces :
       \E pieces \in [1..n -> FormatPieces] :
         rpc' = [fn |-> "formatTemplateContent", content |-> Concat(pieces),
                 returned |-> FALSE, result |-> <<>>]
  /\ UNCHANGED <<message_templates, refined_responses, req,
                 template_upload_sessions, upload, chat>>

ReturnFormat ==
  /\ rpc.fn = "formatTemplateContent"
  /\ ~rpc.returned
  /\ rpc' = [rpc EXCEPT !.returned = TRUE,
                        !.result = formatTemplateContent(rpc.content)]
  /\ UNCHANGED <<message_templates, refined_responses, req,
                 template_upload_sessions, upload, chat>>

NextFormat == CallFormat \/ ReturnFormat

SpecFormat == InitContent /\ [][NextFormat]_vars

(***************************************************************************)
(* Claims about analyzeTemplateContent                                     *)
(***************************************************************************)
Analyzed == rpc.fn = "analyzeTemplateContent" /\ rpc.returned

MatchesNoPattern(content) ==
  \A list \in { CategoryIndicators, ToneIndicators, ComplexityIndicators,
                ClientTypeIndicators } :
    \A i \in 1..Len(list) : ~Test(list[i].phrases, content)

\* C13: on the empty string, and on any text that matches none of the
\* patterns, the analysis gives category "custom", tone "professional",
\* complexity "standard" and clientType "business"; on the empty string the
\* keywords are the empty list.
C13_DefaultsWhenNothingMatches ==
  (Analyzed /\ MatchesNoPattern(rpc.content)) =>
    /\ rpc.result.category = "custom"
    /\ rpc.result.tone = "professional"
    /\ rpc.result.complexity = "standard"
    /\ rpc.result.clientType = "business"
    /\ rpc.content = <<>> => rpc.result.keywords = <<>>

Declared(category) ==
  CHOOSE i \in 1..Len(CategoryIndicators) : CategoryIndicators[i].category = category

ScoreOf(content, i) == categoryScores(content)[i].score

\* C14: the category is the one with the highest accumulated pattern score
\* and, among categories of equal highest score, the one declared first in
\* the order client_onboarding, custom_offer, revision_handling, delivery,
\* follow_up, upselling, requirements_gathering: "welcome" together with
\* "proposal" gives client_onboarding.
C14_HighestScoreFirstDeclared ==
  Analyzed =>
    /\ LET scores == categoryScores(rpc.content)
       IN  \E i \in 1..Len(CategoryIndicators) :
             /\ rpc.result.category = CategoryIndicators[i].category
             /\ \A j \in 1..Len(CategoryIndicators) : scores[j].score <= scores[i].score
             /\ \A j \in 1..(i - 1) : scores[j].score < scores[i].score
    /\ << CategoryIndicators[1].category, CategoryIndicators[2].category,
          CategoryIndicators[3].category, CategoryIndicators[4].category,
          CategoryIndicators[5].category, CategoryIndicators[6].category,
          CategoryIndicators[7].category >>
         = << "client_onboarding", "custom_offer", "revision_handling", "delivery",
              "follow_up", "upselling", "requirements_gathering" >>
    /\ rpc.content = Text("Welcome proposal") =>
         rpc.result.category = "client_onboarding"

\* the text with "welcome" and "proposal" was analysed: both categories score
\* 3, and the first declared one is returned
C14_Witness ==
  /\ Analyzed
  /\ rpc.content = Text("Welcome proposal")
  /\ ScoreOf(rpc.content, Declared("client_onboarding")) = 3
  /\ ScoreOf(rpc.content, Declared("custom_offer")) = 3
  /\ rpc.result.category = "client_onboarding"

\* the positions of the tone patterns that match the content
ToneMatches(content) ==
  { i \in 1..Len(ToneIndicators) : Test(ToneIndicators[i].phrases, content) }

\* C15: the tone is that of the first pattern that matches, tried in the order
\* warm, consultative, efficient, formal, collaborative, and "professional"
\* when none matches.
C15_ToneFirstMatch ==
  Analyzed =>
    /\ [i \in 1..Len(ToneIndicators) |-> ToneIndicators[i].value]
         = << "warm", "consultative", "efficient", "formal", "collaborative" >>
    /\ LET matches == ToneMatches(rpc.content)
       IN  /\ \A i \in matches :
                (\A j \in 1..(i - 1) : j \notin matches)
                  => rpc.result.tone = ToneIndicators[i].value
           /\ matches = {} => rpc.result.tone = "professional"

\* a text that matches the consultative, the formal and the collaborative
\* pattern was analysed as consultative
C15_Witness ==
  /\ Analyzed
  /\ ToneMatches(rpc.content) = { 2, 4, 5 }
  /\ rpc.result.tone = "consultative"

\* the qualifying tokens of a text: longer than 3 characters and no stop word
\* in any letter case
Qualifies(token) == Len(token) > 3 /\ \A w \in commonWords : LOWER(token) # w

\* the positions where a qualifying token occurs for the first time; the
\* tokens are given in lower case, so letter case is disregarded
FirstPositions(tokens) ==
  { i \in 1..Len(tokens) :
      /\ Qualifies(tokens[i])
      /\ \A j \in 1..(i - 1) : tokens[j] # tokens[i] }

\* C16: the keywords are at most 12, each lower-cased, longer than 3
\* characters and no stop word in any letter case, without duplicates and in
\* order of first occurrence in the text: exactly the first 12 distinct
\* qualifying tokens.
C16_FirstTwelveKeywords ==
  Analyzed =>
    LET keywords == rpc.result.keywords
        tokens == LowerAll(Words(rpc.content))
        firsts == FirstPositions(tokens)
    IN  /\ Len(keywords) = Min(12, Cardinality(firsts))
        /\ \A k \in 1..Len(keywords) :
             /\ keywords[k] = LOWER(keywords[k])
             /\ Len(keywords[k]) > 3
             /\ keywords[k] \notin commonWords
             /\ \A m \in 1..Len(keywords) : m # k => keywords[m] # keywords[k]
             /\ \E i \in firsts :
                  /\ keywords[k] = tokens[i]
                  /\ Cardinality({ j \in firsts : j < i }) = k - 1

\* a text with more than 12 distinct qualifying tokens, a stop word and a
\* token repeated in another letter case was analysed
C16_Witness ==
  /\ Analyzed
  /\ Cardinality(FirstPositions(LowerAll(Words(rpc.content)))) > 12
  /\ \E i, j \in 1..Len(Words(rpc.content)) :
       /\ i < j
       /\ Words(rpc.content)[i] # Words(rpc.content)[j]
       /\ LOWER(Words(rpc.content)[i]) = LOWER(Words(rpc.content)[j])
       /\ Qualifies(Words(rpc.content)[i])
  /\ Len(rpc.result.keywords) = 12

(***************************************************************************)
(* Claims about formatTemplateContent                                      *)
(***************************************************************************)
Formatted == rpc.fn = "formatTemplateContent" /\ rpc.returned

\* C17: formatting is idempotent: formatting a formatted content returns it
\* unchanged.
C17_FormatIdempotent ==
  Formatted => formatTemplateContent(rpc.result) = rpc.result

\* a content that formatting changed was formatted: a greeting in capitals
\* followed by a space and a tab
C17_Witness ==
  /\ Formatted
  /\ rpc.content = Text("HELLO \ta")
  /\ rpc.result = Text("Hello a")

(***************************************************************************)
(* TemplateUpload.tsx: parsing an uploaded file                            *)
(***************************************************************************)
MaxRecords == 2

\* the records of a file, field by field: a title and a content that may be
\* empty, and a category column that may be missing
RecordPool ==
  [ title : { <<>>, Text("Welcome") },
    content : { <<>>, Text("hi  there"), Text("hello  there, friend") },
    category : { ABSENT, "delivery" } ]

\* the files a user may choose; only a JSON file can fail to parse as an array
FilePool ==
  UNION { { f \in [ ext : { "csv", "json", "txt", "pdf" }, wellFormed : BOOLEAN,
                    records : [1..n -> RecordPool] ] :
              f.wellFormed \/ f.ext = "json" } : n \in 0..MaxRecords }

\* a missing or empty string member is falsy
Falsy(v) == v = ABSENT \/ v = ""

\* the ParsedTemplate of a CSV row: cells are trimmed, an empty category cell
\* becomes 'custom', a missing column leaves the member undefined
CsvTemplate(record) ==
  [ title |-> trim(record.title), content |-> trim(record.content),
    category |-> IF record.category = ABSENT THEN ABSENT
                 ELSE IF Falsy(record.category) THEN "custom" ELSE record.category,
    client_type |-> ABSENT,
    matching_keywords |-> NullArr ]

\* the ParsedTemplate of a JSON item
JsonTemplate(record) ==
  [ title |-> record.title, content |-> record.content,
    category |-> IF Falsy(record.category) THEN "custom" ELSE record.category,
    client_type |-> ABSENT,
    matching_keywords |-> Arr(<<>>) ]

\* template.title && template.content
Accepted(template) == template.title # <<>> /\ template.content # <<>>

\* if (template.title && template.content) templates.push(template)
\* .filter(template => template.title && template.content)
KeepAccepted(parsed) == SelectSeq(parsed, Accepted)

\* lines.length < 2 throws; every other row is parsed and kept if accepted
parseCSVContent(file) ==
  IF Len(file.records) = 0
  THEN [threw |-> TRUE, templates |-> <<>>]
  ELSE [threw |-> FALSE, templates |-> KeepAccepted([k \in 1..Len(file.records) |-> CsvTemplate(file.records[k])])]

\* JSON.parse or the Array.isArray test throws; items are mapped and filtered
parseJSONContent(file) ==
  IF ~file.wellFormed
  THEN [threw |-> TRUE, templates |-> <<>>]
  ELSE [threw |-> FALSE, templates |-> KeepAccepted([k \in 1..Len(file.records) |-> JsonTemplate(file.records[k])])]

\* formattedContent.split('\n')[0].substring(0, 50)
RECURSIVE FirstLine(_)
FirstLine(s) ==
  IF s = <<>> \/ Head(s) = "\n" THEN <<>> ELSE <<Head(s)>> \o FirstLine(Tail(s))

\* .replace(/[^\w\s]/g, '')
KeepWordAndSpace(s) == SelectSeq(s, LAMBDA c : IsWordChar(c) \/ IsSpace(c))

TemplateNumber == << "1", "2", "3", "4", "5", "6", "7", "8", "9" >>

\* `Template ${index + 1}`, or the cleaned first line when it is longer than 10
smartTitle(formattedContent, index) ==
  LET firstLine == Slice(FirstLine(formattedContent), 50)
      cleaned == trim(KeepWordAndSpace(firstLine))
  IN  IF Len(firstLine) > 10
      THEN IF Len(cleaned) > 40 THEN SubSeq(cleaned, 1, 37) \o Text("...") ELSE cleaned
      ELSE Text("Template ") \o <<TemplateNumber[index]>>

\* fileContent.split('\n\n').filter(p => p.trim()).map(...)
RECURSIVE TxtTemplates(_, _)
TxtTemplates(paragraphs, index) ==
  IF index > Len(paragraphs) THEN <<>>
  ELSE LET formattedContent == formatTemplateContent(paragraphs[index])
           analysis == analyzeTemplateContent(formattedContent)
       IN  << [ title |-> smartTitle(formattedContent, index),
                content |-> formattedContent,
                category |-> analysis.category,
                client_type |-> analysis.clientType,
                matching_keywords |-> Arr(analysis.keywords) ] >>
             \o TxtTemplates(paragraphs, index + 1)

parseTxtContent(file) ==
  LET contents == [k \in 1..Len(file.records) |-> file.records[k].content]
      paragraphs == SelectSeq(contents, LAMBDA p : trim(p) # <<>>)
  IN  [threw |-> FALSE, templates |-> TxtTemplates(paragraphs, 1)]

ParseFile(file) ==
  IF file.ext = "csv" THEN parseCSVContent(file)
  ELSE IF file.ext = "json" THEN parseJSONContent(file)
  ELSE parseTxtContent(file)

(***************************************************************************)
(* TemplateUpload.tsx: handleFileUpload, one step per awaited call         *)
(***************************************************************************)
UploadUser == 1

\* the row handleFileUpload inserts for a parsed template
enhancedTemplate(template) ==
  LET formattedContent == formatTemplateContent(template.content)
      analysis == analyzeTemplateContent(formattedContent)
  IN  [ user_id |-> UploadUser,
        title |-> template.title,
        template_content |-> formattedContent,
        category |-> IF Falsy(template.category) THEN analysis.category
                     ELSE template.category,
        client_type |-> IF Falsy(template.client_type) THEN analysis.clientType
                        ELSE template.client_type,
        matching_keywords |-> IF template.matching_keywords.isnull
                              THEN Arr(analysis.keywords)
                              ELSE template.matching_keywords,
        success_rating |-> NullNum,
        usage_count |-> 0 ]

\* catch (error) { toast "Upload failed" } finally { setIsUploading(false) }
UploadFailed(u) ==
  [u EXCEPT !.pc = "done", !.toast = "Upload failed", !.isUploading = FALSE]

\* a file is chosen: the extension test, file.text(), the parser, and the
\* request that inserts the upload session
ChooseFile ==
  /\ upload.pc = "idle"
  /\ \E file \in FilePool :
       LET parsed == ParseFile(file)
           u == [upload EXCEPT !.file = file]
       IN  upload' =
             IF file.ext \notin { "csv", "json", "txt" }
             THEN [u EXCEPT !.pc = "done", !.toast = "Invalid file type"]
             ELSE IF parsed.threw \/ Len(parsed.templates) = 0
             THEN UploadFailed(u)
             ELSE [u EXCEPT !.pc = "session", !.isUploading = TRUE,
                            !.templates = parsed.templates]
  /\ UNCHANGED <<message_templates, refined_responses, rpc, req,
                 template_upload_sessions, chat>>

\* .from('template_upload_sessions').insert({...}).select().single() settles:
\* if (sessionError) throw sessionError
SessionInsertReturns ==
  /\ upload.pc = "session"
  /\ \/ /\ template_upload_sessions' =
            Append(template_upload_sessions,
                   [ user_id |-> UploadUser,
                     total_templates |-> Len(upload.templates),
                     processed_templates |-> 0,
                     failed_templates |-> 0,
                     status |-> "processing",
                     error_log |-> <<>>,
                     completed_at |-> NULL ])
        /\ upload' = [upload EXCEPT !.pc = "inserting", !.i = 1,
                                    !.session = Len(template_upload_sessions) + 1]
     \/ /\ upload' = UploadFailed(upload)
        /\ UNCHANGED template_upload_sessions
  /\ UNCHANGED <<message_templates, refined_responses, rpc, req, chat>>

\* errors.push(`Template "${template.title}": ...`)
ErrorEntry(template) == [title |-> template.title]

AfterInsertThrowUnlogged(u, how) ==
  [u EXCEPT !.successful = IF how = "ok" THEN @ + 1 ELSE @,
            !.errors = IF how = "error" THEN Append(@, ErrorEntry(u.templates[u.i])) ELSE @,
            !.i = @ + 1,
            !.pc = IF u.i = Len(u.templates) THEN "update" ELSE "inserting"]

\* what the loop body leaves after the insert of template i settled
AfterInsert(u, how) ==
  [u EXCEPT !.successful = IF how = "ok" THEN @ + 1 ELSE @,
            !.errors = IF how = "ok" THEN @ ELSE Append(@, ErrorEntry(u.templates[u.i])),
            !.i = @ + 1,
            !.pc = IF u.i = Len(u.templates) THEN "update" ELSE "inserting"]

\* the insert of the next template settles: the row is stored, an error is
\* returned, or the try block throws; after the last one the session update
\* is sent
InsertReturns ==
  /\ upload.pc = "inserting"
  /\ \E how \in { "ok", "error", "threw" } :
       /\ upload' = AfterInsert(upload, how)
       /\ message_templates' =
            IF how = "ok"
            THEN Append(message_templates, enhancedTemplate(upload.templates[upload.i]))
            ELSE message_templates
  /\ UNCHANGED <<refined_responses, rpc, req, template_upload_sessions, chat>>

\* the session update settles; its result is not looked at
UpdateReturns ==
  /\ upload.pc = "update"
  /\ \E how \in { "ok", "error" } :
       template_upload_sessions' =
         IF how = "ok"
         THEN [template_upload_sessions EXCEPT
                 ![upload.session] =
                   [@ EXCEPT !.processed_templates = upload.successful,
                             !.failed_templates =
                               Len(upload.templates) - upload.successful,
                             !.status = "completed",
                             !.completed_at = "now",
                             !.error_log = upload.errors]]
         ELSE template_upload_sessions
  /\ upload' = [upload EXCEPT
                  !.pc = "done",
                  !.uploadResults =
                    [set |-> TRUE, total |-> Len(upload.templates),
                     successful |-> upload.successful,
                     failed |-> Len(upload.templates) - upload.successful,
                     errors |-> upload.errors],
                  !.toast = IF upload.successful > 0 THEN "Upload completed" ELSE @,
                  !.isUploading = FALSE]
  /\ UNCHANGED <<message_templates, refined_responses, rpc, req, chat>>

InitUpload ==
  /\ message_templates = << >>
  /\ refined_responses = << >>
  /\ rpc = NoCall
  /\ req = NoRequest
  /\ template_upload_sessions = << >>
  /\ upload = NoUpload
  /\ chat = NoChat

NextUpload ==
  \/ ChooseFile
  \/ SessionInsertReturns
  \/ InsertReturns
  \/ UpdateReturns

SpecUpload == InitUpload /\ [][NextUpload]_vars

(***************************************************************************)
(* Claims about the bulk import                                            *)
(***************************************************************************)
\* a record of the file that has no title or no body
Unresolved(record) == trim(record.title) = <<>> \/ trim(record.content) = <<>>

UnresolvedCount(file) ==
  Cardinality({ k \in 1..Len(file.records) : Unresolved(file.records[k]) })

\* C18: in a bulk import every record of the file that does not resolve to a
\* title and a body is counted as a failure in the summary and has an entry
\* in the error log: the total is the number of records, and there are at
\* least as many failures and error entries as unresolved records (one
\* well-formed row and one row with an empty title give total 2, successful 1,
\* failed 1 and one error entry).
C18_UnresolvedRecordsCounted ==
  (upload.uploadResults.set /\ upload.file.ext \in { "csv", "json" }) =>
    /\ upload.uploadResults.total = Len(upload.file.records)
    /\ upload.uploadResults.failed >= UnresolvedCount(upload.file)
    /\ Len(upload.uploadResults.errors) >= UnresolvedCount(upload.file)
    /\ template_upload_sessions[upload.session].status = "completed" =>
         /\ template_upload_sessions[upload.session].total_templates
              = Len(upload.file.records)
         /\ template_upload_sessions[upload.session].failed_templates
              >= UnresolvedCount(upload.file)
         /\ Len(template_upload_sessions[upload.session].error_log)
              >= UnresolvedCount(upload.file)

\* C19: once the upload session exists the import is best-effort: when the
\* handler has finished, every template was attempted whatever failed before
\* it, every template whose insert succeeded is stored, and the session has
\* status "completed" whatever the number of failed templates.
C19_BestEffortCompleted ==
  (upload.pc = "done" /\ upload.session # 0) =>
    /\ upload.i = Len(upload.templates) + 1
    /\ upload.successful + Len(upload.errors) = Len(upload.templates)
    /\ Len(message_templates) = upload.successful
    /\ template_upload_sessions[upload.session].status = "completed"

(***************************************************************************)
(* The chat screen: generateResponse                                       *)
(***************************************************************************)
MaxCalls == 2

\* what an absent member of a reply evaluates to
undefined == "undefined"

responseTemplates ==
  [ greeting |-> "Thank you for reaching out! ...",
    customOffer |-> "Based on your requirements, ...",
    revision |-> "Thank you for your feedback! ...",
    delivery |-> "I'm pleased to inform you ...",
    timeline |-> "I appreciate your patience ..." ]

\* the text the catch block of generateResponse shows
ClientFallbackText == "Thank you for your message! I understand your requirements ..."

\* the quick-template buttons pressed
QuickTemplatePool == { "greeting", "delivery" }

ChatMessagePool == { <<>>, Text("  "), Text("hi") }

\* the replies the gemini-chat handler gives to a POST, and no reply at all
EdgeReplies ==
  { [status |-> 200, error |-> NULL, fallback |-> NULL, generatedResponse |-> "generated"],
    [status |-> 200, error |-> NULL, fallback |-> NULL, generatedResponse |-> ""],
    ErrorResponse("Failed to generate response with Gemini"),
    [status |-> 0, error |-> "Failed to send a request to the Edge Function",
     fallback |-> NULL, generatedResponse |-> NULL] }

\* supabase.functions.invoke: data is the body of a 2xx reply, every other
\* reply and a failed request give an error and no data
Invoke(reply) ==
  IF reply.status = 200
  THEN [error |-> FALSE,
        data |-> [generatedResponse |-> reply.generatedResponse, fallback |-> undefined]]
  ELSE [error |-> TRUE, data |-> [generatedResponse |-> undefined, fallback |-> undefined]]

\* a || b on strings and absent values
Or(a, b) == IF a \in { "", undefined, NULL } THEN b ELSE a

\* the text generateResponse puts on the screen when invoke has settled
ShownAfterInvoke(result) ==
  IF result.error THEN ClientFallbackText
  ELSE Or(result.data.generatedResponse, result.data.fallback)

\* the client message textarea
SetClientMessage ==
  /\ \E message \in ChatMessagePool : chat' = [chat EXCEPT !.clientMessage = message]
  /\ UNCHANGED <<message_templates, refined_responses, rpc, req,
                 template_upload_sessions, upload>>

\* a quick-template button: generateResponse(template) runs to its end
\* without an await
GenerateFromTemplate ==
  /\ \E template \in QuickTemplatePool :
       chat' = IF trim(chat.clientMessage) = <<>>
               THEN [chat EXCEPT !.toast = "Missing message"]
               ELSE [chat EXCEPT !.generatedResponse = responseTemplates[template],
                                 !.generatedFor = chat.clientMessage,
                                 !.isGenerating = FALSE]
  /\ UNCHANGED <<message_templates, refined_responses, rpc, req,
                 template_upload_sessions, upload>>

\* the Generate Response button (disabled={!clientMessage || isGenerating},
\* shown while not editing): generateResponse() up to the await of
\* supabase.functions.invoke
GenerateStart ==
  /\ chat.clientMessage # <<>>
  /\ ~chat.isGenerating
  /\ ~chat.isEditing
  /\ Len(chat.calls) < MaxCalls
  /\ chat' = IF trim(chat.clientMessage) = <<>>
             THEN [chat EXCEPT !.toast = "Missing message"]
             ELSE [chat EXCEPT !.isGenerating = TRUE,
                               !.calls = Append(@, [clientMessage |-> chat.clientMessage])]
  /\ UNCHANGED <<message_templates, refined_responses, rpc, req,
                 template_upload_sessions, upload>>

\* an invoke settles: the rest of generateResponse, with catch and finally
InvokeReturns ==
  /\ \E k \in 1..Len(chat.calls), reply \in EdgeReplies :
       chat' = [chat EXCEPT
                  !.calls = SubSeq(@, 1, k - 1) \o Drop(@, k),
                  !.generatedResponse = ShownAfterInvoke(Invoke(reply)),
                  !.generatedFor = chat.calls[k].clientMessage,
                  !.toast = IF Invoke(reply).error THEN "Generation failed" ELSE @,
                  !.isGenerating = FALSE]
  /\ UNCHANGED <<message_templates, refined_responses, rpc, req,
                 template_upload_sessions, upload>>

InitChat ==
  /\ message_templates = << >>
  /\ refined_responses = << >>
  /\ rpc = NoCall
  /\ req = NoRequest
  /\ template_upload_sessions = << >>
  /\ upload = NoUpload
  /\ chat = NoChat

NextChat ==
  \/ SetClientMessage
  \/ GenerateFromTemplate
  \/ GenerateStart
  \/ InvokeReturns

SpecChat == InitChat /\ [][NextChat]_vars

(***************************************************************************)
(* Claims about the chat screen                                            *)
(***************************************************************************)
\* a generateResponse call on a non-blank client message finishes in this step
GenerationFinishes ==
  \/ Len(chat'.calls) < Len(chat.calls)
  \/ /\ chat'.calls = chat.calls
     /\ chat'.clientMessage = chat.clientMessage
     /\ trim(chat.clientMessage) # <<>>
     /\ chat' # chat

\* C20: when a generateResponse call on a non-blank client message finishes,
\* whatever the edge function and the generation API did (success, error
\* reply, failed call, empty generated text), the generated response on the
\* screen is a non-empty text.
C20_NeverBlank ==
  [][GenerationFinishes => chat'.generatedResponse \notin { "", undefined }]_vars

(***************************************************************************)
(* Template use: the "Use template" button of the template manager, and    *)
(* the database functions called with any template id by any user          *)
(***************************************************************************)
MaxUses == 2

\* const { user } = useAuth() of the template manager
ManagerUser == UploadUser

UsageTemplateIds == { 1, 2, 3 }

\* two users with one template each; usage_count is a nullable INTEGER
UsageCatalogue ==
  { (1 :> [ user_id |-> 1, template_content |-> "first", category |-> "delivery",
            client_type |-> NULL, matching_keywords |-> Arr(<< <<"b">> >>),
            success_rating |-> NullNum, usage_count |-> count, last_used_at |-> NULL ])
    @@
    (2 :> [ user_id |-> 2, template_content |-> "second", category |-> "delivery",
            client_type |-> NULL, matching_keywords |-> Arr(<< <<"b">> >>),
            success_rating |-> Num(500), usage_count |-> Num(0), last_used_at |-> NULL ])
    : count \in { NullNum, Num(0) } }

\* COALESCE(usage_count, 0)
CoalesceZero(n) == IF n.isnull THEN 0 ELSE n.val

UpdateWithoutCoalesce(templates, template_id) ==
  [id \in DOMAIN templates |->
     IF id = template_id
     THEN [templates[id] EXCEPT !.usage_count = IF @.isnull THEN NullNum ELSE Num(@.val + 1),
                                !.last_used_at = "now"]
     ELSE templates[id]]

\* UPDATE message_templates SET usage_count = COALESCE(usage_count, 0) + 1,
\* last_used_at = now() WHERE id = template_id
update_template_usage(templates, template_id) ==
  [id \in DOMAIN templates |->
     IF id = template_id
     THEN [templates[id] EXCEPT !.usage_count = Num(CoalesceZero(@) + 1),
                                !.last_used_at = "now"]
     ELSE templates[id]]

\* the rows loadTemplates shows: .eq('user_id', user.id)
OwnTemplateIds(templates, user) ==
  { id \in DOMAIN templates : templates[id].user_id = user }

\* the counters of the table stay within the bound of the model
UsesLeft(template_id) ==
  template_id \in DOMAIN message_templates =>
    CoalesceZero(message_templates[template_id].usage_count) < MaxUses

\* useTemplate of the chat screen, the onUseTemplate of the manager
useTemplate(c, content) ==
  [c EXCEPT !.generatedResponse = content, !.generatedFor = <<>>,
            !.toast = "Template applied"]

\* the Use button: useTemplateAndTrack up to the await of supabase.rpc
UseTemplateAndTrack ==
  /\ Len(chat.tracking) < MaxUses
  /\ \E id \in OwnTemplateIds(message_templates, ManagerUser) :
       chat' = [chat EXCEPT !.tracking =
                  Append(@, [template_id |-> id,
                             template_content |-> message_templates[id].template_content])]
  /\ UNCHANGED <<message_templates, refined_responses, rpc, req,
                 template_upload_sessions, upload>>

\* the rpc settles (done, an error result, or a rejected promise): the rest
\* of useTemplateAndTrack
TrackingReturns ==
  /\ chat.tracking # <<>>
  /\ \E k \in 1..Len(chat.tracking), how \in { "ok", "error", "threw" } :
       LET call == chat.tracking[k]
       IN  /\ how = "ok" => UsesLeft(call.template_id)
           /\ message_templates' =
                IF how = "ok"
                THEN update_template_usage(message_templates, call.template_id)
                ELSE message_templates
           /\ chat' = useTemplate([chat EXCEPT !.tracking = SubSeq(@, 1, k - 1) \o Drop(@, k)],
                                  call.template_content)
  /\ UNCHANGED <<refined_responses, rpc, req, template_upload_sessions, upload>>

\* supabase.rpc('update_template_usage', { template_id }) by any signed-in user
RpcUpdateUsage ==
  /\ \E caller \in UserPool, id \in UsageTemplateIds :
       /\ UsesLeft(id)
       /\ rpc' = [fn |-> "update_template_usage", caller |-> caller, template_id |-> id,
                  rows |-> { id } \cap DOMAIN message_templates]
       /\ message_templates' = update_template_usage(message_templates, id)
  /\ UNCHANGED <<refined_responses, req, template_upload_sessions, upload, chat>>

\* supabase.rpc('calculate_template_match_score', ...) by any signed-in user
RpcMatchScore ==
  /\ \E caller \in UserPool, id \in UsageTemplateIds, msg \in MessagePool :
       rpc' = [fn |-> "calculate_template_match_score", caller |-> caller,
               template_id |-> id, rows |-> { id } \cap DOMAIN message_templates,
               result |-> calculate_template_match_score(message_templates, id, msg,
                            [message_type |-> "delivery", client_type |-> ABSENT])]
  /\ UNCHANGED <<message_templates, refined_responses, req,
                 template_upload_sessions, upload, chat>>

InitUsage ==
  /\ message_templates \in UsageCatalogue
  /\ refined_responses \in [1..1 -> RefinedRows]
  /\ rpc = NoCall
  /\ req = NoRequest
  /\ template_upload_sessions = << >>
  /\ upload = NoUpload
  /\ chat = NoChat

NextUsage ==
  \/ UseTemplateAndTrack
  \/ TrackingReturns
  \/ RpcUpdateUsage
  \/ RpcMatchScore
  \/ CallFindSimilar

SpecUsage == InitUsage /\ [][NextUsage]_vars

(***************************************************************************)
(* Claims about template use and the matching machinery                    *)
(***************************************************************************)
\* the Use button has been pressed in this step
UsePressed == Len(chat'.tracking) > Len(chat.tracking)

\* C21: the template content reaches the response generator in the step that
\* starts the usage-count update, without waiting for the update's outcome.
C21_DeliveryDoesNotWait ==
  [][UsePressed =>
       chat'.generatedResponse = chat'.tracking[Len(chat'.tracking)].template_content]_vars

\* C22: a match-scoring call or a usage-count increment issued by one user
\* reads or changes only rows of message_templates that this user owns.
C22_OwnTemplatesOnly ==
  rpc.fn \in { "update_template_usage", "calculate_template_match_score" } =>
    \A id \in rpc.rows : message_templates[id].user_id = rpc.caller

\* the row a usage-count increment makes of a row
Incremented(row) ==
  [row EXCEPT !.usage_count = Num(CoalesceZero(row.usage_count) + 1),
              !.last_used_at = "now"]

\* the table differs from the one before in the counted use of one template
OneUseCounted(id) ==
  /\ id \in DOMAIN message_templates
  /\ message_templates' = [message_templates EXCEPT ![id] = Incremented(@)]

\* C23: match scoring and similarity retrieval leave every persisted record
\* unchanged; update_template_usage changes only usage_count (by exactly +1,
\* a missing count taken as 0) and last_used_at of the one template with the
\* given id, and no other field and no other record.
C23_OnlyUsageChanges ==
  [][/\ refined_responses' = refined_responses
     /\ \/ message_templates' = message_templates
        \/ \E id \in DOMAIN message_templates : OneUseCounted(id)
     /\ (rpc' # rpc /\ rpc'.fn \in { "calculate_template_match_score",
                                     "find_similar_refined_responses" })
          => message_templates' = message_templates
     /\ (rpc' # rpc /\ rpc'.fn = "update_template_usage")
          => IF rpc'.template_id \in DOMAIN message_templates
             THEN OneUseCounted(rpc'.template_id)
             ELSE message_templates' = message_templates]_vars

\* a missing count has been counted up to 1 by a call, the other template is as it was
C23_Witness ==
  /\ rpc.fn = "update_template_usage"
  /\ rpc.template_id = 1
  /\ message_templates[1].usage_count = Num(1)
  /\ message_templates[1].last_used_at = "now"
  /\ message_templates[2].usage_count = Num(0)
  /\ message_templates[2].last_used_at = NULL

(***************************************************************************)
(* The template form of the template manager: saveTemplate                 *)
(***************************************************************************)
MaxTemplates == 2

FormTitlePool == { <<>>, Text(" "), Text("T"), Text(" U") }
FormContentPool == { Text(" "), Text("C ") }
\* what the user typed into the "matching keywords" field
FormKeywordsPool ==
  { <<>>, Text(" "), Text("b"), Text("a,b"), Text("b,b"), Text("b, B") }

\* s.split(',')
RECURSIVE SplitOnComma(_)
SplitOnComma(s) ==
  IF \E i \in 1..Len(s) : s[i] = ","
  THEN LET i == CHOOSE k \in 1..Len(s) : s[k] = "," /\ \A j \in 1..(k - 1) : s[j] # ","
       IN  <<SubSeq(s, 1, i - 1)>> \o SplitOnComma(Drop(s, i))
  ELSE <<s>>

\* matchingKeywords.trim() ? matchingKeywords.split(',').map(kw => kw.trim()) : []
FormKeywords(matchingKeywords) ==
  IF trim(matchingKeywords) = <<>> THEN <<>>
  ELSE LET parts == SplitOnComma(matchingKeywords)
       IN  [k \in 1..Len(parts) |-> trim(parts[k])]

\* templateData of saveTemplate, for a form left at its defaults but for
\* title, content and keywords
templateData(title, content, matchingKeywords) ==
  [ title |-> trim(title),
    template_content |-> trim(content),
    category |-> "client_onboarding",
    client_type |-> NULL,
    matching_keywords |-> Arr(FormKeywords(matchingKeywords)) ]

\* the row an insert of templateData makes: the columns not sent take their defaults
InsertedTemplate(data) ==
  [ user_id |-> ManagerUser, title |-> data.title,
    template_content |-> data.template_content, category |-> data.category,
    client_type |-> data.client_type, matching_keywords |-> data.matching_keywords,
    success_rating |-> NullNum, usage_count |-> Num(0), last_used_at |-> NULL ]

\* .update(templateData).eq('id', editingTemplate.id)
UpdatedTemplate(row, data) ==
  [row EXCEPT !.title = data.title, !.template_content = data.template_content,
              !.category = data.category, !.client_type = data.client_type,
              !.matching_keywords = data.matching_keywords]

\* the Save button of the form: saveTemplate, the form filled in any way,
\* opened for a new template (editing = 0) or for one of the list
SaveTemplate ==
  /\ \E title \in FormTitlePool, content \in FormContentPool,
        matchingKeywords \in FormKeywordsPool,
        editing \in { 0 } \cup DOMAIN message_templates, failed \in BOOLEAN :
       LET data == templateData(title, content, matchingKeywords)
       IN  IF trim(title) = <<>> \/ trim(content) = <<>>
           THEN /\ chat' = [chat EXCEPT !.toast = "Missing fields"]
                /\ UNCHANGED message_templates
           ELSE IF failed
           THEN /\ chat' = [chat EXCEPT !.toast = "Error"]
                /\ UNCHANGED message_templates
           ELSE IF editing # 0
           THEN /\ chat' = [chat EXCEPT !.toast = "Template updated"]
                /\ message_templates' =
                     [message_templates EXCEPT ![editing] = UpdatedTemplate(@, data)]
           ELSE /\ Len(message_templates) < MaxTemplates
                /\ chat' = [chat EXCEPT !.toast = "Template saved"]
                /\ message_templates' = Append(message_templates, InsertedTemplate(data))
  /\ UNCHANGED <<refined_responses, rpc, req, template_upload_sessions, upload>>

\* deleteTemplate: .delete().eq('id', templateId), of the newest template
DeleteTemplate ==
  /\ message_templates # << >>
  /\ \E failed \in BOOLEAN :
       IF failed
       THEN /\ chat' = [chat EXCEPT !.toast = "Error"]
            /\ UNCHANGED message_templates
       ELSE /\ chat' = [chat EXCEPT !.toast = "Template deleted"]
            /\ message_templates' = SubSeq(message_templates, 1, Len(message_templates) - 1)
  /\ UNCHANGED <<refined_responses, rpc, req, template_upload_sessions, upload>>

NextManager == SaveTemplate \/ DeleteTemplate

SpecManager == InitChat /\ [][NextManager]_vars

\* no two keywords of the list are equal but for case
NoDuplicateKeywords(keywords) ==
  \A i, j \in 1..Len(keywords) : i # j => LOWER(keywords[i]) # LOWER(keywords[j])

\* C24: every persisted template has a matching_keywords list without
\* duplicates, compared case-insensitively.
C24_KeywordsDeduplicated ==
  \A id \in DOMAIN message_templates :
    ~message_templates[id].matching_keywords.isnull =>
       NoDuplicateKeywords(message_templates[id].matching_keywords.val)

(***************************************************************************)
(* Claims about the gemini-chat edge function: scoring and the prompt      *)
(***************************************************************************)
\* the templates whose content a prompt carries: systemPrompt interpolates
\* the number of saved templates and the refined examples, and no template
PromptTemplates(prompt) ==
  IF "templates" \in DOMAIN prompt THEN { prompt.templates[k] : k \in DOMAIN prompt.templates }
  ELSE {}

\* C25: in every request that reaches the generation call, each template of
\* the user has been scored against the message, and the prompt carries the
\* highest-ranked templates together with the similar-response examples.
C25_AllScoredBestInPrompt ==
  req.geminiCalled =>
    /\ \A k \in 1..Len(req.templates) :
         \E i \in 1..Len(req.templateMatches) :
           req.templateMatches[i].template = req.templates[k]
    /\ \A k \in 1..Len(req.bestMatches) :
         req.bestMatches[k].template \in PromptTemplates(req.prompt)
    /\ Len(req.prompt.examples) = Len(req.similarRefinedResponses)

(***************************************************************************)
(* Claims about the chat screen, continued                                 *)
(***************************************************************************)
\* C26: isGenerating is true whenever a generation request to the edge
\* function is in flight, whatever the order of Generate presses,
\* quick-template presses and completions; so at most one request is in
\* flight at a time.
C26_GeneratingWhileInFlight ==
  /\ chat.calls # <<>> => chat.isGenerating
  /\ Len(chat.calls) <= 1

(***************************************************************************)
(* The chat screen: fine-tuning a response (startEditing, cancelEditing,   *)
(* saveRefinedResponse)                                                    *)
(***************************************************************************)
MaxSaves == 1

EditedResponsePool == { "", "edited" }

\* clientMessage.toLowerCase().split(' ').filter(word => word.length > 3)
similarity_keywords(clientMessage) ==
  SelectSeq(SplitOnSpace(LOWER(clientMessage)), LAMBDA word : Len(word) > 3)

\* the Fine-tune button (disabled={!generatedResponse}, shown while not editing)
startEditing ==
  /\ ~chat.isEditing
  /\ chat.generatedResponse \notin { "", undefined }
  /\ chat' = [chat EXCEPT !.editedResponse = chat.generatedResponse,
                          !.isEditing = TRUE,
                          !.draft = chat.generatedResponse,
                          !.draftFor = chat.generatedFor]
  /\ UNCHANGED <<message_templates, refined_responses, rpc, req,
                 template_upload_sessions, upload>>

\* the Cancel button, shown while editing
cancelEditing ==
  /\ chat.isEditing
  /\ chat' = [chat EXCEPT !.isEditing = FALSE, !.editedResponse = "",
                          !.draft = "", !.draftFor = <<>>]
  /\ UNCHANGED <<message_templates, refined_responses, rpc, req,
                 template_upload_sessions, upload>>

\* the textarea of the response card, shown while editing
SetEditedResponse ==
  /\ chat.isEditing
  /\ \E text \in EditedResponsePool : chat' = [chat EXCEPT !.editedResponse = text]
  /\ UNCHANGED <<message_templates, refined_responses, rpc, req,
                 template_upload_sessions, upload>>

\* the Save Refined Response button (disabled={!editedResponse.trim()}, shown
\* while editing): saveRefinedResponse up to the await of the insert
SaveRefinedStart ==
  /\ chat.isEditing
  /\ chat.editedResponse # ""
  /\ Len(chat.saves) < MaxSaves
  /\ chat.clientMessage # <<>>
  /\ chat.generatedResponse \notin { "", undefined }
  /\ chat' = [chat EXCEPT !.saves =
                Append(@, [ row |-> [ user_id |-> ManagerUser,
                                      original_client_message |-> chat.clientMessage,
                                      original_response |-> chat.generatedResponse,
                                      refined_response |-> chat.editedResponse,
                                      message_type |-> "custom_offer",
                                      similarity_keywords |->
                                        similarity_keywords(chat.clientMessage) ],
                            draft |-> chat.draft, draftFor |-> chat.draftFor ])]
  /\ UNCHANGED <<message_templates, refined_responses, rpc, req,
                 template_upload_sessions, upload>>

\* the insert settles: the rest of saveRefinedResponse
SaveRefinedReturns ==
  /\ chat.saves # <<>>
  /\ \E k \in 1..Len(chat.saves), failed \in BOOLEAN :
       LET save == chat.saves[k]
           rest == [chat EXCEPT !.saves = SubSeq(@, 1, k - 1) \o Drop(@, k)]
       IN  IF failed
           THEN /\ chat' = [rest EXCEPT !.toast = "Error"]
                /\ UNCHANGED refined_responses
           ELSE /\ Len(refined_responses) < MaxSaves
                /\ refined_responses' = Append(refined_responses, save.row)
                /\ chat' = [rest EXCEPT !.generatedResponse = save.row.refined_response,
                                        !.isEditing = FALSE,
                                        !.editedResponse = "",
                                        !.draft = "", !.draftFor = <<>>,
                                        !.toast = "Response refined and saved"]
  /\ UNCHANGED <<message_templates, rpc, req, template_upload_sessions, upload>>

\* the response card and the message card without requests to the edge
\* function: responses come from the quick-template buttons
NextEditor ==
  \/ SetClientMessage
  \/ GenerateFromTemplate
  \/ startEditing
  \/ cancelEditing
  \/ SetEditedResponse
  \/ SaveRefinedStart
  \/ SaveRefinedReturns

SpecEditor == InitChat /\ [][NextEditor]_vars

\* an insert of saveRefinedResponse settles in this step, for the k-th save in flight
SaveSettles(k) ==
  /\ k \in 1..Len(chat.saves)
  /\ chat'.saves = SubSeq(chat.saves, 1, k - 1) \o Drop(chat.saves, k)

\* C27: every record saved by saveRefinedResponse stores as original_response
\* the draft loaded into the editor when editing began and as
\* original_client_message the client message that draft was generated for;
\* a failed insert leaves the editing state, the edited text and the
\* generated response unchanged.
C27_SavedRecordIsTheDraft ==
  [][\A k \in 1..MaxSaves :
       SaveSettles(k) =>
         IF Len(refined_responses') > Len(refined_responses)
         THEN LET row == refined_responses'[Len(refined_responses')]
              IN  /\ row.original_response = chat.saves[k].draft
                  /\ row.original_client_message = chat.saves[k].draftFor
         ELSE /\ chat'.isEditing = chat.isEditing
              /\ chat'.editedResponse = chat.editedResponse
              /\ chat'.generatedResponse = chat.generatedResponse]_vars

\* the template has no keyword that occurs in the client message of the request
NoKeywordOccurs(template_id) ==
  LET row == message_templates[template_id]
  IN  row.matching_keywords.isnull
        \/ SubstringMatches(row.matching_keywords.val, req.clientMessage) = 0

\* success_rating is absent or within [1, 5]
RatedWithinScale(template_id) ==
  LET rating == message_templates[template_id].success_rating
  IN  rating.isnull \/ (rating.val >= 100 /\ rating.val <= 500)

\* C28: a template none of whose keywords occurs in the client message, rated
\* within [1, 5] or not at all, scores at most 0.144 and is never among
\* bestMatches; bestMatches holds at most 3 of the at most 5 scored templates,
\* each with a score above 0.3, in descending order of score.
C28_BestMatchFilter ==
  req.ranked =>
    /\ \A i \in 1..Len(req.templateMatches) :
         LET m == req.templateMatches[i]
         IN  (NoKeywordOccurs(m.template) /\ RatedWithinScale(m.template))
               => /\ m.score <= 1440
                  /\ \A k \in 1..Len(req.bestMatches) :
                       req.bestMatches[k].template # m.template
    /\ Len(req.templateMatches) <= ScoredTemplatesLimit
    /\ Len(req.bestMatches) <= BestMatchesLimit
    /\ \A k \in 1..Len(req.bestMatches) :
         /\ req.bestMatches[k].score > BestMatchThreshold
         /\ \E i \in 1..Len(req.templateMatches) :
              req.templateMatches[i] = req.bestMatches[k]
    /\ \A j, k \in 1..Len(req.bestMatches) :
         j < k => req.bestMatches[j].score >= req.bestMatches[k].score

\* C29: a POST without an Authorization header, or with a token that does not
\* resolve to a user, reads no template, conversation, profile or
\* refined-response record, makes no call to the generation API, and is
\* answered with status 500 carrying the error and the fallback message.
C29_UnauthenticatedReadsNothing ==
  (req.method = "POST" /\ req.user = 0) =>
    /\ req.reads = {}
    /\ req.templateMatches = << >>
    /\ ~req.geminiCalled
    /\ req.pc = "done" =>
         /\ req.response.status = 500
         /\ req.response.error # NULL
         /\ req.response.fallback = FallbackText

\* a request whose token resolved to no user has been answered
C29_Witness ==
  /\ req.method = "POST"
  /\ req.pc = "done"
  /\ req.user = 0
  /\ req.response.error = "Invalid user token"

(***************************************************************************)
(* Claims about the bulk import, continued                                 *)
(***************************************************************************)
\* C30: for every upload session marked completed, processed_templates +
\* failed_templates = total_templates and the error log has exactly one entry
\* per failed template, whatever inserts succeeded, returned an error or threw.
C30_CompletedSessionAddsUp ==
  \A id \in DOMAIN template_upload_sessions :
    LET session == template_upload_sessions[id]
    IN  session.status = "completed" =>
          /\ session.processed_templates + session.failed_templates
               = session.total_templates
          /\ Len(session.error_log) = session.failed_templates

\* a completed session of two templates, one stored and one failed
C30_Witness ==
  \E id \in DOMAIN template_upload_sessions :
    /\ template_upload_sessions[id].status = "completed"
    /\ template_upload_sessions[id].processed_templates = 1
    /\ template_upload_sessions[id].failed_templates = 1
    /\ Len(template_upload_sessions[id].error_log) = 1

====
